---- MODULE Spec2Model ----
(***************************************************************************)
(* A model of the meal-planner grocery pipeline: the ingredient line       *)
(* parser (lib/ingredients/parser.ts), the aggregator                      *)
(* (lib/ingredients/aggregator.ts) and the categorizer                     *)
(* (lib/ingredients/categorizer.ts).                                       *)
(*                                                                         *)
(* Strings are TLA+ strings handled character by character; JavaScript     *)
(* numbers are exact rationals plus NaN and Infinity; `undefined` and      *)
(* `null` are explicit values.                                             *)
(***************************************************************************)
EXTENDS Integers, Sequences, FiniteSets, TLC

VARIABLES
    pc,             \* position of the caller: which call is running / suspended
    lines,          \* parseIngredients: argument `lines`
    useAI,          \* parseIngredients: argument `useAI`
    simpleLines,    \* parseIngredients: local simpleLines
    complexLines,   \* parseIngredients: local complexLines
    simpleResults,  \* parseIngredients: local simpleResults
    aiCalls,        \* requests sent to the interpretation service (callOpenAI)
    aiRequest,      \* the lines the prompt of the last such request carries
    aiAnswer,       \* what the await of that request ended with
    threw,          \* TRUE when a call let an exception escape to its caller
    parsed,         \* value returned by parseIngredients / input of aggregateIngredients
    aggregated,     \* value returned by aggregateIngredients
    catMode,        \* categorizer harness: "single" or "batch"
    catInput,       \* categorizer harness: sequence of {name, canonicalName, baseName}
    catUseAI,       \* categorizer: argument `useAI`
    catAnswer,      \* the classifier's reply consumed by the last categorizer call
    catOut,         \* categorizer: the returned sections, a function of the name
    clsCalls,       \* requests sent to the classification service
    plan,           \* grocery-list route: the plan of the request body
    response,       \* grocery-list route: the response it returned
    call,           \* direct call of a pure function: the function and its arguments
    result,         \* the value that call returned
    reviewPlan,     \* review page: state `plan`, the meals in order
    storedPlan,     \* localStorage "meal-planner-current-plan"
    approvedMeals,  \* review page: state `approvedMeals`, a set of meal keys
    storedApproved, \* localStorage "meal-planner-approved-meals"
    approvedAs,     \* history: the recipe each approved meal had at the Approve click
    replacingMeal,  \* review page: state `replacingMeal`
    showReplaceInput, \* review page: state `showReplaceInput`
    isRegenerating, \* review page: state `isRegenerating`
    planParams,     \* review page: TRUE when the plan parameters were loaded
    requests,       \* review page: fetches awaited by handlers, with what they closed over
    finalizedPlan,  \* localStorage "meal-planner-finalized-plan"
    token,          \* PaprikaClient: field `token`
    loginsInFlight, \* PaprikaClient: login() calls awaiting the login response
    syncRequests,   \* PaprikaClient: requests sent to the sync endpoints
    lastCall,       \* PaprikaClient: the last getRecipes/getRecipe/getCategories call
    lastLogin,      \* PaprikaClient: how the last login() ended, with the response it read
    loginSucceeded  \* history: TRUE once a login() has returned normally

vars == <<pc, lines, useAI, simpleLines, complexLines, simpleResults, aiCalls,
          aiRequest, aiAnswer, threw, parsed, aggregated, catMode, catInput, catUseAI, catAnswer,
          catOut, clsCalls, plan, response, call, result, reviewPlan, storedPlan,
          approvedMeals, storedApproved, approvedAs, replacingMeal, showReplaceInput,
          isRegenerating, planParams, requests, finalizedPlan, token, loginsInFlight,
          syncRequests, lastCall, lastLogin, loginSucceeded>>

parseVars == <<lines, useAI, simpleLines, complexLines, simpleResults, aiCalls,
               aiRequest, aiAnswer, parsed>>
catVars == <<catMode, catInput, catUseAI, catAnswer, catOut, clsCalls>>
reviewVars == <<reviewPlan, storedPlan, approvedMeals, storedApproved, approvedAs,
                replacingMeal, showReplaceInput, isRegenerating, planParams, requests,
                finalizedPlan>>
paprikaVars == <<token, loginsInFlight, syncRequests, lastCall, lastLogin, loginSucceeded>>
serverVars == <<parseVars, threw, aggregated, catVars, plan, response, call, result>>

-----------------------------------------------------------------------------
(* Bounds of the model.                                                    *)

\* direct calls of formatQuantity take totals 0, 1/2, 1, ..., MaxTotal
MaxTotal == 64

\* the review page awaits up to MaxRequests fetches at a time
MaxRequests == 2

\* direct calls of generatePlan take up to MaxPlanRecipes recipes and the
\* first MaxDays days of the week
MaxPlanRecipes == 3
MaxDays == 3

\* a PaprikaClient awaits up to MaxLogins logins at a time and sends up to
\* MaxSyncRequests requests to the sync endpoints
MaxLogins == 2
MaxSyncRequests == 2

MaxLines == 2       \* longest `lines` argument
MaxAIRecords == 2   \* longest array the interpretation service answers with
MaxRecords == 3     \* longest direct input of aggregateIngredients
MaxNames == 2       \* longest `names` argument of categorizeIngredients

-----------------------------------------------------------------------------
(* JavaScript values.                                                      *)

\* an absent (undefined or null) string-valued field
NoStr == "<undefined>"
Falsy(s) == s = NoStr \/ s = ""

Undefined == [k |-> "undefined"]
Null == [k |-> "null"]
NaN == [k |-> "NaN"]
Infinity == [k |-> "Infinity"]

RECURSIVE Gcd(_, _)
Gcd(a, b) == IF b = 0 THEN a ELSE Gcd(b, a % b)
Abs(i) == IF i < 0 THEN -i ELSE i

\* the rational n/d (d > 0) in lowest terms
Num(n, d) ==
    LET g == Gcd(Abs(n), d)
    IN  [k |-> "num", n |-> n \div g, d |-> d \div g]
Int2Num(i) == Num(i, 1)

\* JavaScript isNaN on a number or undefined
IsNaNJS(v) == v.k \in {"NaN", "undefined"}
\* JavaScript truthiness of a number | undefined | null
Truthy(v) == v.k = "Infinity" \/ (v.k = "num" /\ v.n # 0)

\* a * b for JavaScript numbers (no negative infinity arises: Infinity only
\* comes from x/0 with x > 0 and is only multiplied by 16 or added)
NumMul(a, b) ==
    IF a.k = "NaN" \/ b.k = "NaN" THEN NaN
    ELSE IF a.k = "Infinity" \/ b.k = "Infinity"
         THEN IF (a.k = "num" /\ a.n = 0) \/ (b.k = "num" /\ b.n = 0) THEN NaN
              ELSE Infinity
    ELSE Num(a.n * b.n, a.d * b.d)

NumAdd(a, b) ==
    IF a.k = "NaN" \/ b.k = "NaN" THEN NaN
    ELSE IF a.k = "Infinity" \/ b.k = "Infinity" THEN Infinity
    ELSE Num(a.n * b.d + b.n * a.d, a.d * b.d)

\* a / b for non-negative finite a, b (the only division is num / den of a
\* fraction token)
NumDiv(a, b) ==
    IF a.k # "num" \/ b.k # "num" THEN NaN
    ELSE IF b.n = 0 THEN (IF a.n = 0 THEN NaN ELSE Infinity)
    ELSE Num(a.n * b.d, a.d * b.n)

-----------------------------------------------------------------------------
(* Strings.                                                                *)

\* characters i..j of s (1-based, inclusive), clipped to s
Slice(s, i, j) ==
    LET lo == IF i < 1 THEN 1 ELSE i
        hi == IF j > Len(s) THEN Len(s) ELSE j
    IN  IF lo > hi THEN "" ELSE SubSeq(s, lo, hi)
\* s.charAt(i - 1): "" when out of range
Chr(s, i) == IF i < 1 \/ i > Len(s) THEN "" ELSE SubSeq(s, i, i)
From(s, i) == Slice(s, i, Len(s))

UpperChars == "ABCDEFGHIJKLMNOPQRSTUVWXYZ"
LowerChars == "abcdefghijklmnopqrstuvwxyz"
DigitChars == "0123456789"
UpperSet == {Chr(UpperChars, i) : i \in 1..26}
LowerSet == {Chr(LowerChars, i) : i \in 1..26}
DigitSet == {Chr(DigitChars, i) : i \in 1..10}
IsDigit(c) == c \in DigitSet
IsAlpha(c) == c \in UpperSet \/ c \in LowerSet
\* \s
IsSpace(c) == c \in {" ", "\t", "\n", "\r"}

LowerChar(c) ==
    IF c \in UpperSet
    THEN Chr(LowerChars, CHOOSE i \in 1..26 : Chr(UpperChars, i) = c)
    ELSE c
UpperChar(c) ==
    IF c \in LowerSet
    THEN Chr(UpperChars, CHOOSE i \in 1..26 : Chr(LowerChars, i) = c)
    ELSE c

\* String.prototype.toLowerCase
\* String.prototype.toLowerCase, character by character (the string is split
\* in halves to keep the evaluation shallow)
RECURSIVE ToLowerCase(_)
ToLowerCase(s) ==
    IF Len(s) <= 1 THEN LowerChar(s)
    ELSE ToLowerCase(Slice(s, 1, Len(s) \div 2))
         \o ToLowerCase(From(s, Len(s) \div 2 + 1))

RECURSIVE TrimStart(_)
TrimStart(s) ==
    IF s # "" /\ IsSpace(Chr(s, 1)) THEN TrimStart(From(s, 2)) ELSE s
RECURSIVE TrimEnd(_)
TrimEnd(s) ==
    IF s # "" /\ IsSpace(Chr(s, Len(s))) THEN TrimEnd(Slice(s, 1, Len(s) - 1)) ELSE s
\* String.prototype.trim
Trim(s) == TrimEnd(TrimStart(s))

StartsWithAt(s, i, p) == Slice(s, i, i + Len(p) - 1) = p
StartsWith(s, p) == StartsWithAt(s, 1, p)
EndsWith(s, p) == Len(p) <= Len(s) /\ From(s, Len(s) - Len(p) + 1) = p
\* String.prototype.includes
Includes(s, p) == \E i \in 1..(Len(s) + 1) : StartsWithAt(s, i, p)

SetMin(S) == CHOOSE x \in S : \A y \in S : x <= y
\* String.prototype.indexOf, 1-based; 0 when absent
IndexOf(s, p) ==
    LET at == {i \in 1..(Len(s) + 1) : StartsWithAt(s, i, p)}
    IN  IF at = {} THEN 0 ELSE SetMin(at)

\* first index >= i of s that is not whitespace (Len(s) + 1 when none): \s*
RECURSIVE SkipSpaces(_, _)
SkipSpaces(s, i) ==
    IF i <= Len(s) /\ IsSpace(Chr(s, i)) THEN SkipSpaces(s, i + 1) ELSE i
\* first index >= i of s that is not a digit: \d*
RECURSIVE SkipDigits(_, _)
SkipDigits(s, i) ==
    IF i <= Len(s) /\ IsDigit(Chr(s, i)) THEN SkipDigits(s, i + 1) ELSE i
\* first index >= i of s that is not a letter: [a-z]* under /i
RECURSIVE SkipAlpha(_, _)
SkipAlpha(s, i) ==
    IF i <= Len(s) /\ IsAlpha(Chr(s, i)) THEN SkipAlpha(s, i + 1) ELSE i

\* the first alternative of `alts` (a sequence of strings, tried in order)
\* that s carries at index i; 0 when none
FirstAlt(s, i, alts) ==
    LET hit == {a \in 1..Len(alts) : StartsWithAt(s, i, alts[a])}
    IN  IF hit = {} THEN 0 ELSE SetMin(hit)

-----------------------------------------------------------------------------
(* Number tokens.                                                          *)

DigitValue(c) == (CHOOSE i \in 1..10 : Chr(DigitChars, i) = c) - 1

RECURSIVE DigitsToInt(_)
DigitsToInt(s) ==
    IF s = "" THEN 0
    ELSE 10 * DigitsToInt(Slice(s, 1, Len(s) - 1)) + DigitValue(Chr(s, Len(s)))

RECURSIVE Pow10(_)
Pow10(e) == IF e = 0 THEN 1 ELSE 10 * Pow10(e - 1)

\* Number(s) / parseFloat(s) for s of the form \d+(\.\d+)?
DecimalToNum(s) ==
    LET dot == IndexOf(s, ".")
    IN  IF dot = 0 THEN Int2Num(DigitsToInt(s))
        ELSE Num(DigitsToInt(Slice(s, 1, dot - 1) \o From(s, dot + 1)),
                 Pow10(Len(s) - dot))

\* end (exclusive) of the match of \d+(?:\/\d+)?(?:\.\d+)? at the start of
\* s; 1 when s does not start with a digit
QuantityTokenEnd(s) ==
    LET \* (?:<sep>\d+)? tried at index a
        OptionalGroup(a, sep, e) == IF Chr(s, a) = sep /\ e > a + 1 THEN e ELSE a
        AfterFraction(a) == OptionalGroup(a, "/", SkipDigits(s, a + 1))
        AfterDecimal(b) == OptionalGroup(b, ".", SkipDigits(s, b + 1))
        AfterDigits(a) == IF a > 1 THEN AfterDecimal(AfterFraction(a)) ELSE a
    IN  AfterDigits(SkipDigits(s, 1))

-----------------------------------------------------------------------------
(* parser.ts: the synonym table and the Unit Table.                        *)

NAME_NORMALIZATION_MAP ==
    ("garlic cloves" :> "garlic") @@ ("cloves garlic" :> "garlic") @@
    ("clove garlic" :> "garlic") @@ ("green onions" :> "green onions") @@
    ("scallions" :> "green onions") @@ ("zucchinis" :> "zucchini") @@
    ("zucchini" :> "zucchini") @@ ("zucchini noodles" :> "zucchini") @@
    ("red bell pepper" :> "bell pepper") @@ ("yellow bell pepper" :> "bell pepper") @@
    ("orange bell pepper" :> "bell pepper") @@ ("green bell pepper" :> "bell pepper") @@
    ("bell peppers" :> "bell pepper") @@ ("bell pepper" :> "bell pepper") @@
    ("cherry tomatoes" :> "cherry tomatoes") @@
    ("cherry tomatoes, halved" :> "cherry tomatoes") @@
    ("basil leaves" :> "basil") @@ ("basil" :> "basil") @@
    ("feta cheese" :> "feta cheese") @@ ("feta cheese, crumbled" :> "feta cheese") @@
    ("parmesan cheese" :> "parmesan cheese") @@
    ("grated parmesan cheese" :> "parmesan cheese") @@
    ("cooked quinoa" :> "cooked quinoa") @@ ("red lentils" :> "red lentils") @@
    ("red lentils, rinsed" :> "red lentils") @@ ("lime" :> "lime") @@
    ("lime wedges" :> "lime") @@ ("juice of 1 lime" :> "lime") @@
    ("lime juice" :> "lime") @@ ("broccoli florets" :> "broccoli florets") @@
    ("fresh ginger" :> "ginger") @@ ("ginger root" :> "ginger") @@
    ("apple cider vinegar" :> "apple cider vinegar") @@
    ("dried oregano" :> "oregano") @@ ("salt and pepper" :> "salt and pepper") @@
    ("salt & pepper" :> "salt and pepper") @@ ("black pepper" :> "black pepper")

InNameMap(s) == s \in DOMAIN NAME_NORMALIZATION_MAP

UnitEntry(b) == [baseUnit |-> b, factor |-> 1]
UNIT_MAP ==
    ("tsp" :> UnitEntry("tsp")) @@ ("teaspoon" :> UnitEntry("tsp")) @@
    ("teaspoons" :> UnitEntry("tsp")) @@ ("tbsp" :> UnitEntry("tbsp")) @@
    ("tablespoon" :> UnitEntry("tbsp")) @@ ("tablespoons" :> UnitEntry("tbsp")) @@
    ("cup" :> UnitEntry("cup")) @@ ("cups" :> UnitEntry("cup")) @@
    ("clove" :> UnitEntry("unit")) @@ ("cloves" :> UnitEntry("unit")) @@
    ("lb" :> UnitEntry("unit")) @@ ("lbs" :> UnitEntry("unit")) @@
    ("pound" :> UnitEntry("unit")) @@ ("pounds" :> UnitEntry("unit")) @@
    ("oz" :> UnitEntry("unit")) @@ ("ounce" :> UnitEntry("unit")) @@
    ("ounces" :> UnitEntry("unit")) @@ ("can" :> UnitEntry("unit")) @@
    ("cans" :> UnitEntry("unit")) @@ ("head" :> UnitEntry("unit")) @@
    ("heads" :> UnitEntry("unit")) @@ ("bunch" :> UnitEntry("unit")) @@
    ("bunches" :> UnitEntry("unit")) @@ ("fillet" :> UnitEntry("unit")) @@
    ("fillets" :> UnitEntry("unit")) @@ ("breast" :> UnitEntry("unit")) @@
    ("breasts" :> UnitEntry("unit")) @@ ("" :> UnitEntry("none"))

-----------------------------------------------------------------------------
(* parser.ts: extractBaseNameAndPrep.                                      *)

PrepAdverbs == <<"finely", "roughly", "coarsely">>
PrepVerbs == <<"minced", "chopped", "diced", "sliced", "grated", "crushed",
               "spiralized", "into noodles", "halved", "seeded", "trimmed",
               "rinsed", "peeled", "deveined", "crumbled", "riced", "julienned",
               "shredded">>
PrepSecondVerbs == <<"seeded", "trimmed", "rinsed", "peeled", "deveined",
                     "crumbled", "sliced", "diced">>
PrepPhrases == <<"for garnish", "for serving">>

\* end (exclusive) of the first alternative of alts at index i of s; 0 when none
AltEnd(s, i, alts) ==
    LET a == FirstAlt(s, i, alts)
    IN  IF a = 0 THEN 0 ELSE i + Len(alts[a])

\* prepPattern tried at the comma at index i of the lower-cased text low:
\* <<start of group 1, end (exclusive) of the match>>, or <<0, 0>>
PrepMatchAt(low, i) ==
    LET \* (?:\s+and\s+(?:seeded|...))? after the verb that ends at verbEnd;
        \* a1 is the index after the whitespace that follows the verb
        AndSecondVerb(verbEnd, a1, a3) ==
            IF a1 > verbEnd /\ StartsWithAt(low, a1, "and") /\ a3 > a1 + 3
               /\ AltEnd(low, a3, PrepSecondVerbs) # 0
            THEN AltEnd(low, a3, PrepSecondVerbs) ELSE verbEnd
        AndEnd(verbEnd, a1) == AndSecondVerb(verbEnd, a1, SkipSpaces(low, a1 + 3))
        \* (?:(?:finely|roughly|coarsely)\s+)? taken when the verb follows it
        VerbStart(j, advEnd, k) ==
            IF advEnd # 0 /\ k > advEnd /\ AltEnd(low, k, PrepVerbs) # 0 THEN k ELSE j
        AfterAdverb(j, advEnd) == VerbStart(j, advEnd, SkipSpaces(low, advEnd))
        Group(j, verbEnd, phraseEnd) ==
            IF verbEnd # 0 THEN <<j, AndEnd(verbEnd, SkipSpaces(low, verbEnd))>>
            ELSE IF phraseEnd # 0 THEN <<j, phraseEnd>>
            ELSE <<0, 0>>
        AfterComma(j) ==
            Group(j, AltEnd(low, AfterAdverb(j, AltEnd(low, j, PrepAdverbs)), PrepVerbs),
                  AltEnd(low, j, PrepPhrases))
    IN  AfterComma(SkipSpaces(low, i + 1))

\* baseName.match(prepPattern): <<index of the comma, start of group 1, end
\* (exclusive)>> of the leftmost match, or <<0, 0, 0>>
PrepMatch(s) ==
    LET Leftmost(hits) ==
            IF hits = {} THEN <<0, 0, 0>>
            ELSE CHOOSE m \in hits : \A o \in hits : m[1] <= o[1]
        Hits(ms) == Leftmost({m \in ms : m[2] # 0})
    IN  Hits({<<i>> \o PrepMatchAt(ToLowerCase(s), i) :
                 i \in {c \in 1..Len(s) : Chr(s, c) = ","}})

\* s.replace(/^(alt1|alt2|...)\s+/i, ""): the first alternative, in order,
\* that starts s and is followed by whitespace is removed with that whitespace
StripLeadingAlt(s, alts) ==
    LET low == ToLowerCase(s)
        ok == {a \in 1..Len(alts) :
                 /\ StartsWith(low, alts[a])
                 /\ SkipSpaces(low, Len(alts[a]) + 1) > Len(alts[a]) + 1}
    IN  IF ok = {} THEN s
        ELSE From(s, SkipSpaces(low, Len(alts[SetMin(ok)]) + 1))

\* the alternative boneless,\s*skinless of the size-descriptor pattern
StripBonelessSkinless(s) ==
    LET low == ToLowerCase(s)
        j == SkipSpaces(low, 10)
        e == j + 8
    IN  IF StartsWith(low, "boneless,") /\ StartsWithAt(low, j, "skinless")
           /\ SkipSpaces(low, e) > e
        THEN From(s, SkipSpaces(low, e)) ELSE s

SizeDescriptors == <<"fresh", "large", "small", "medium", "organic", "dried",
                     "boneless", "skinless", "lean">>
LeadingPhrases == <<"juice of", "wedges of", "wedges from">>

\* s.replace(/^(fresh|...|lean|boneless,\s*skinless)\s+/i, "")
StripSizeDescriptor(s) ==
    LET OrBonelessSkinless(stripped) ==
            IF stripped # s THEN stripped ELSE StripBonelessSkinless(s)
    IN  OrBonelessSkinless(StripLeadingAlt(s, SizeDescriptors))

\* start of the whitespace run that ends just before index i
RECURSIVE SpaceRunStart(_, _)
SpaceRunStart(s, i) ==
    IF i > 1 /\ IsSpace(Chr(s, i - 1)) THEN SpaceRunStart(s, i - 1) ELSE i

\* s.replace(/\s+(for garnish|for serving)$/i, "")
StripTrailingPhrase(s) ==
    LET low == ToLowerCase(s)
        p == Len(s) - 10
    IN  IF (EndsWith(low, "for garnish") \/ EndsWith(low, "for serving"))
           /\ SpaceRunStart(s, p) < p
        THEN Slice(s, 1, SpaceRunStart(s, p) - 1) ELSE s

\* s.replace(/^optional:\s*/i, "")
StripOptional(s) ==
    IF StartsWith(ToLowerCase(s), "optional:") THEN From(s, SkipSpaces(s, 10)) ELSE s

extractBaseNameAndPrep(name) ==
    LET \* lines 96-112: m is the match of prepPattern on baseName
        WithPrepMatch(baseName, m) ==
            [baseName |->
                 Trim(StripLeadingAlt(
                          StripTrailingPhrase(
                              StripSizeDescriptor(
                                  IF m[1] = 0 THEN baseName
                                  ELSE Trim(Slice(baseName, 1, m[1] - 1)
                                            \o From(baseName, m[3])))),
                          LeadingPhrases)),
             prepNote |-> IF m[1] = 0 THEN NoStr
                          ELSE Trim(Slice(baseName, m[2], m[3] - 1))]
        \* lines 88-112: baseName is name.trim() without a leading "optional:"
        FromBaseName(baseName) == WithPrepMatch(baseName, PrepMatch(baseName))
    IN  FromBaseName(StripOptional(Trim(name)))

-----------------------------------------------------------------------------
(* parser.ts: normalizeCanonicalName.                                      *)

\* /^salt\s*(and|&)\s*pepper/i
SaltAndPepperTest(low) ==
    LET j == SkipSpaces(low, 5)
        e == IF StartsWithAt(low, j, "and") THEN j + 3
             ELSE IF StartsWithAt(low, j, "&") THEN j + 1 ELSE 0
    IN  StartsWith(low, "salt") /\ e # 0 /\ StartsWithAt(low, SkipSpaces(low, e), "pepper")

\* /^<word>\s+to\s+taste/i ; with `whole`, /^<word>\s+to\s+taste$/i
ToTasteTest(low, word, whole) ==
    LET a == Len(word) + 1
        b == SkipSpaces(low, a)
        c == b + 2
        d == SkipSpaces(low, c)
    IN  /\ StartsWith(low, word) /\ b > a
        /\ StartsWithAt(low, b, "to") /\ d > c
        /\ StartsWithAt(low, d, "taste")
        /\ (whole => d + 5 = Len(low) + 1)

parserNormalizeCanonicalName(baseName) ==
    LET \* lines 123-133: the plural step
        Plural(n0) ==
            IF EndsWith(n0, "s") /\ ~EndsWith(n0, "ss") /\ ~EndsWith(n0, "us")
            THEN IF InNameMap(Slice(n0, 1, Len(n0) - 1))
                 THEN NAME_NORMALIZATION_MAP[Slice(n0, 1, Len(n0) - 1)]
                 ELSE IF InNameMap(n0) THEN NAME_NORMALIZATION_MAP[n0]
                 ELSE n0
            ELSE n0
        \* lines 139-141: synonym normalization
        Synonym(n2) == IF InNameMap(n2) THEN NAME_NORMALIZATION_MAP[n2] ELSE n2
        \* lines 144-146
        SaltAndPepper(n3, low3) ==
            IF SaltAndPepperTest(low3) \/ ToTasteTest(low3, "salt", FALSE)
            THEN "salt and pepper" ELSE n3
        \* lines 149-151
        PepperToTaste(n4) ==
            IF ToTasteTest(ToLowerCase(n4), "pepper", TRUE) THEN "salt and pepper" ELSE n4
        Special(n3) == PepperToTaste(SaltAndPepper(n3, ToLowerCase(n3)))
    IN  Special(Synonym(Trim(Plural(Trim(ToLowerCase(baseName))))))

-----------------------------------------------------------------------------
(* parser.ts: normalizeUnit, enrichParsedIngredient, parseIngredientRegex. *)

normalizeUnit(unit, quantity) ==
    IF Falsy(unit) /\ quantity # Undefined
    THEN [baseUnit |-> "unit", quantityInBaseUnits |-> quantity]
    ELSE IF Falsy(unit) \/ ~Truthy(quantity)
    THEN [baseUnit |-> "none", quantityInBaseUnits |-> Undefined]
    ELSE LET normalizedUnit == Trim(ToLowerCase(unit))
         IN  IF normalizedUnit \in DOMAIN UNIT_MAP
             THEN LET unitInfo == UNIT_MAP[normalizedUnit]
                  IN  IF unitInfo.baseUnit = "cup"
                      THEN [baseUnit |-> "tbsp",
                            quantityInBaseUnits |-> NumMul(quantity, Int2Num(16))]
                      ELSE IF unitInfo.baseUnit = "tbsp"
                      THEN [baseUnit |-> "tbsp", quantityInBaseUnits |-> quantity]
                      ELSE IF unitInfo.baseUnit = "tsp"
                      THEN [baseUnit |-> "tsp", quantityInBaseUnits |-> quantity]
                      ELSE [baseUnit |-> unitInfo.baseUnit,
                            quantityInBaseUnits |-> quantity]
             ELSE [baseUnit |-> "unit", quantityInBaseUnits |-> quantity]

\* a ParsedIngredient before enrichment: the literal built by a pattern tier
\* or by a fallback, or a record taken from the interpretation service
RawIngredient(name, quantity, unit, originalText, raw) ==
    [name |-> name, baseName |-> "", prepNote |-> NoStr, canonicalName |-> "",
     quantity |-> quantity, unit |-> unit, baseUnit |-> "none",
     quantityInBaseUnits |-> Undefined, originalText |-> originalText, raw |-> raw]

\* enrichParsedIngredient throws (name.trim() on a missing name)
EnrichThrows(p) == p.name = NoStr

enrichParsedIngredient(p) ==
    LET Enriched(bp, nu) ==
            [p EXCEPT !.raw = IF ~Falsy(p.originalText) THEN p.originalText
                              ELSE IF ~Falsy(p.raw) THEN p.raw ELSE "",
                      !.baseName = bp.baseName,
                      !.prepNote = bp.prepNote,
                      !.canonicalName = parserNormalizeCanonicalName(bp.baseName),
                      !.baseUnit = nu.baseUnit,
                      !.quantityInBaseUnits = nu.quantityInBaseUnits]
    IN  Enriched(extractBaseNameAndPrep(p.name), normalizeUnit(p.unit, p.quantity))

\* the value of a quantity token \d+(?:\/\d+)?(?:\.\d+)?
ParseQuantity(quantityStr) ==
    LET OrUndefined(q) == IF IsNaNJS(q) THEN Undefined ELSE q
        Split(slash) ==
            IF slash # 0
            THEN NumDiv(DecimalToNum(Slice(quantityStr, 1, slash - 1)),
                        DecimalToNum(From(quantityStr, slash + 1)))
            ELSE DecimalToNum(quantityStr)
    IN  OrUndefined(Split(IndexOf(quantityStr, "/")))

\* /to taste|as needed|optional|for garnish/i.test(trimmed)
NoQuantityPhrase(trimmed) ==
    LET Test(low) ==
            \/ Includes(low, "to taste") \/ Includes(low, "as needed")
            \/ Includes(low, "optional") \/ Includes(low, "for garnish")
    IN  Test(ToLowerCase(trimmed))

\* simplePattern on a text whose quantity token ends (exclusive) at qe: <<end
\* of group 1, start of group 2, end of group 2, start of group 3>> (ends
\* exclusive), or <<0, 0, 0, 0>> when it does not match
SimpleMatch(trimmed, qe) ==
    LET us == SkipSpaces(trimmed, qe)
        ue == SkipAlpha(trimmed, us)
        ns == SkipSpaces(trimmed, ue)
    IN  IF qe > 1 /\ us > qe /\ ue > us /\ ns > ue /\ ns <= Len(trimmed)
        THEN <<qe, us, ue, ns>> ELSE <<0, 0, 0, 0>>

\* noUnitPattern: <<end of group 1, start of group 2>>, or <<0, 0>>
NoUnitMatch(trimmed, qe) ==
    LET ns == SkipSpaces(trimmed, qe)
    IN  IF qe > 1 /\ ns > qe /\ ns <= Len(trimmed) THEN <<qe, ns>> ELSE <<0, 0>>

\* the value parseIngredientRegex returns for "no pattern matches"
NullIngredient == [name |-> NoStr]

parseIngredientRegex(line) ==
    LET \* the literal of the first tier that matches; quantity is the value of
        \* group 1, sm and nm the matches of simplePattern and noUnitPattern
        Literal(trimmed, quantity, sm, nm) ==
            IF NoQuantityPhrase(trimmed)
            THEN RawIngredient(ToLowerCase(trimmed), Undefined, NoStr, trimmed, trimmed)
            ELSE IF sm[1] # 0
            THEN RawIngredient(Trim(From(trimmed, sm[4])), quantity,
                               ToLowerCase(Slice(trimmed, sm[2], sm[3] - 1)),
                               trimmed, trimmed)
            ELSE IF nm[1] # 0
            THEN RawIngredient(Trim(From(trimmed, nm[2])), quantity, NoStr,
                               trimmed, trimmed)
            ELSE NullIngredient
        Tiers(trimmed, qe) ==
            Literal(trimmed, ParseQuantity(Slice(trimmed, 1, qe - 1)),
                    SimpleMatch(trimmed, qe), NoUnitMatch(trimmed, qe))
        \* every tier returns enrichParsedIngredient(parsed); no tier: null
        Return(literal) ==
            IF literal = NullIngredient THEN NullIngredient
            ELSE enrichParsedIngredient(literal)
        Trimmed(trimmed) == Return(Tiers(trimmed, QuantityTokenEnd(trimmed)))
    IN  Trimmed(Trim(line))

\* the literal both fallback branches build for a line
FallbackIngredient(line) == RawIngredient(Trim(line), Undefined, NoStr, line, line)

\* parseIngredient(line, false): the pattern tiers, then the final fallback
parseIngredientNoAI(line) ==
    LET OrFallback(regexResult) ==
            IF regexResult # NullIngredient THEN regexResult
            ELSE enrichParsedIngredient(FallbackIngredient(line))
    IN  OrFallback(parseIngredientRegex(line))

-----------------------------------------------------------------------------
(* parser.ts: parseIngredients, one step up to the await and one after it. *)

Range(f) == {f[i] : i \in DOMAIN f}
SeqsUpTo(S, n) == UNION {[1..k -> S] : k \in 0..n}

\* the lines the caller passes
LinePool ==
    {"2 cups flour", "0 cups flour", "1.5 tbsp olive oil", "1/2 tsp salt and pepper",
     "Salt and pepper to taste", "2 cloves garlic, minced", "3 eggs",
     "0/0 tbsp olive oil", "olive oil", "-2 cups flour", "2 large eggs"}

\* one element of the array the interpretation service answers with: a
\* record {name, quantity, unit, originalText} or the JSON value null
AINullItem == [name |-> NoStr, isNull |-> TRUE]
AIItem(name, quantity, unit, originalText) ==
    [name |-> name, quantity |-> quantity, unit |-> unit,
     originalText |-> originalText, isNull |-> FALSE]
AIItemPool ==
    {AIItem("olive oil", Int2Num(2), "tbsp", "olive oil"),
     AIItem("flour", Int2Num(-2), "cups", NoStr),
     AIItem("flour", Int2Num(2), " ", NoStr),
     AIItem("salt", Null, NoStr, NoStr),
     AINullItem}

\* what the await of callOpenAI ends with: a rejection, or a text that is
\* plain JSON, JSON inside a markdown code fence, or no JSON at all; the
\* JSON value is an array of items or (isArray = FALSE) a single item
AIThrow == [kind |-> "throw"]
AIText(form, isArray, items) ==
    [kind |-> "text", form |-> form, isArray |-> isArray, items |-> items]
AIResponses ==
    {AIThrow, AIText("garbage", FALSE, <<>>)}
    \cup {AIText(form, TRUE, items) :
            form \in {"plain", "fenced"}, items \in SeqsUpTo(AIItemPool, MaxAIRecords)}
    \cup {AIText("plain", FALSE, <<it>>) : it \in AIItemPool}

\* JSON.parse(response.trim()) throws
JSONParseThrows(resp) == resp.form # "plain"

\* the forEach of lines 433-440 applied to the element at `index` (1-based)
FillOriginalText(item, index) ==
    LET line == IF index <= Len(complexLines) THEN complexLines[index] ELSE NoStr
    IN  RawIngredient(item.name, item.quantity, item.unit,
                      IF Falsy(item.originalText) THEN line ELSE item.originalText,
                      line)

\* the try block of lines 409-466 ends in its catch block
AITryThrows(resp) ==
    \/ resp.kind = "throw"
    \/ JSONParseThrows(resp)
    \/ \E i \in 1..Len(resp.items) : resp.items[i].isNull \/ EnrichThrows(resp.items[i])

enrichedAiResults(resp) ==
    [i \in 1..Len(resp.items) |-> enrichParsedIngredient(FillOriginalText(resp.items[i], i))]

\* simpleLines.includes(line)
IsSimpleLine(line) == line \in Range(simpleLines)

\* simpleIndex and complexIndex once the loop has handled lines[1..i]
SimpleCount(i) == Cardinality({j \in 1..i : IsSimpleLine(lines[j])})
ComplexCount(i) == Cardinality({j \in 1..i : ~IsSimpleLine(lines[j])})

\* lines 445-466: recombination in original order after a successful call
CombineAI(resp) ==
    LET enriched == enrichedAiResults(resp)
    IN  [i \in 1..Len(lines) |->
            IF IsSimpleLine(lines[i])
            THEN simpleResults[SimpleCount(i)]
            ELSE LET complexIndex == ComplexCount(i)
                 IN  IF complexIndex <= Len(enriched) THEN enriched[complexIndex]
                     ELSE enrichParsedIngredient(FallbackIngredient(lines[i]))]

\* lines 467-493: the catch block
CombineFallback ==
    LET fallbackResults == [k \in 1..Len(complexLines) |->
                               parseIngredientNoAI(complexLines[k])]
        Patch(fb) == IF Falsy(fb.baseName)
                     THEN [fb EXCEPT !.baseName = extractBaseNameAndPrep(fb.name).baseName]
                     ELSE fb
    IN  [i \in 1..Len(lines) |->
            IF IsSimpleLine(lines[i])
            THEN simpleResults[SimpleCount(i)]
            ELSE enrichParsedIngredient(
                     Patch(fallbackResults[ComplexCount(i)]))]

IsPatternLine(line) == parseIngredientRegex(line) # NullIngredient
IsUnresolvedLine(line) == ~IsPatternLine(line)

\* lines 391-427 (no unresolved line or useAI = false: through line 498)
ParseStart ==
    /\ pc = "start"
    /\ simpleLines' = SelectSeq(lines, IsPatternLine)
    /\ complexLines' = SelectSeq(lines, IsUnresolvedLine)
    /\ simpleResults' = [k \in 1..Len(simpleLines') |->
                            parseIngredientRegex(simpleLines'[k])]
    /\ IF Len(complexLines') > 0 /\ useAI
       THEN /\ aiCalls' = aiCalls + 1
            /\ aiRequest' = complexLines'
            /\ pc' = "awaitAI"
            /\ UNCHANGED parsed
       ELSE /\ parsed' = simpleResults'
            /\ pc' = "parsed"
            /\ UNCHANGED <<aiCalls, aiRequest>>
    /\ UNCHANGED <<lines, useAI, aiAnswer, threw, aggregated, catVars, plan, response, call, result,
                   reviewVars, paprikaVars>>

\* a parseIngredients that calls the interpretation service a second time
\* after a failed call
AIRespondRetrying ==
    /\ pc = "awaitAI"
    /\ \E resp \in AIResponses :
          /\ aiAnswer' = resp
          /\ IF AITryThrows(resp) /\ aiCalls < 2
             THEN /\ aiCalls' = aiCalls + 1
                  /\ pc' = "awaitAI"
                  /\ UNCHANGED parsed
             ELSE /\ parsed' = IF AITryThrows(resp) THEN CombineFallback ELSE CombineAI(resp)
                  /\ pc' = "parsed"
                  /\ UNCHANGED aiCalls
    /\ UNCHANGED <<lines, useAI, simpleLines, complexLines, simpleResults,
                   aiRequest, threw, aggregated, catVars, plan, response, call, result,
                   reviewVars, paprikaVars>>

\* lines 429-494: the call resolves or rejects, and parseIngredients returns
AIRespond ==
    /\ pc = "awaitAI"
    /\ \E resp \in AIResponses :
          /\ aiAnswer' = resp
          /\ parsed' = IF AITryThrows(resp) THEN CombineFallback ELSE CombineAI(resp)
    /\ pc' = "parsed"
    /\ UNCHANGED <<lines, useAI, simpleLines, complexLines, simpleResults, aiCalls,
                   aiRequest, threw, aggregated, catVars, plan, response, call, result,
                   reviewVars, paprikaVars>>

-----------------------------------------------------------------------------
(* aggregator.ts.                                                          *)

\* comparisons of a JavaScript number with an integer
NumGE(a, i) == a.k = "Infinity" \/ (a.k = "num" /\ a.n >= i * a.d)
NumEqInt(a, i) == a.k = "num" /\ a.n = i * a.d
\* Math.floor(a / i) for i > 0
NumFloorDiv(a, i) ==
    IF a.k = "num" THEN Int2Num(a.n \div (a.d * i)) ELSE a
\* (a % i) === 0 for a >= 0, i > 0
NumDivisible(a, i) == a.k = "num" /\ a.d = 1 /\ a.n % i = 0

\* a formatQuantity that turns every teaspoon total of 3 or more into whole
\* tablespoons
formatQuantityAlwaysTbsp(totalQuantity, baseUnit, name) ==
    IF baseUnit = "none" \/ totalQuantity = Undefined
    THEN [displayQuantity |-> Undefined, displayUnit |-> NoStr]
    ELSE IF baseUnit = "tbsp" /\ NumGE(totalQuantity, 16)
    THEN [displayQuantity |-> NumFloorDiv(totalQuantity, 16),
          displayUnit |-> IF NumEqInt(NumFloorDiv(totalQuantity, 16), 1) THEN "cup" ELSE "cups"]
    ELSE IF baseUnit = "tsp" /\ NumGE(totalQuantity, 3)
    THEN [displayQuantity |-> NumFloorDiv(totalQuantity, 3), displayUnit |-> "tbsp"]
    ELSE IF baseUnit \in {"tsp", "tbsp"}
    THEN [displayQuantity |-> totalQuantity, displayUnit |-> baseUnit]
    ELSE IF baseUnit = "cup"
    THEN [displayQuantity |-> totalQuantity,
          displayUnit |-> IF NumEqInt(totalQuantity, 1) THEN "cup" ELSE "cups"]
    ELSE [displayQuantity |-> totalQuantity, displayUnit |-> ""]

formatQuantity(totalQuantity, baseUnit, name) ==
    IF baseUnit = "none" \/ totalQuantity = Undefined
    THEN [displayQuantity |-> Undefined, displayUnit |-> NoStr]
    ELSE IF baseUnit = "tbsp" /\ NumGE(totalQuantity, 16)
    THEN LET cups == NumFloorDiv(totalQuantity, 16)
         IN  [displayQuantity |-> cups,
              displayUnit |-> IF NumEqInt(cups, 1) THEN "cup" ELSE "cups"]
    ELSE IF baseUnit = "tsp" /\ NumGE(totalQuantity, 3)
    THEN IF NumDivisible(totalQuantity, 3)
         THEN [displayQuantity |-> NumFloorDiv(totalQuantity, 3), displayUnit |-> "tbsp"]
         ELSE [displayQuantity |-> totalQuantity, displayUnit |-> "tsp"]
    ELSE IF baseUnit = "tsp"
    THEN [displayQuantity |-> totalQuantity, displayUnit |-> "tsp"]
    ELSE IF baseUnit = "tbsp"
    THEN [displayQuantity |-> totalQuantity, displayUnit |-> "tbsp"]
    ELSE IF baseUnit = "cup"
    THEN [displayQuantity |-> totalQuantity,
          displayUnit |-> IF NumEqInt(totalQuantity, 1) THEN "cup" ELSE "cups"]
    ELSE IF baseUnit = "unit"
    THEN [displayQuantity |-> totalQuantity, displayUnit |-> ""]
    ELSE [displayQuantity |-> Undefined, displayUnit |-> NoStr]

\* the aggregator's own normalizeCanonicalName (lines 260-262)
aggNormalizeCanonicalName(name) == Trim(ToLowerCase(name))

\* index of the next " " of s at or after i (Len(s) + 1 when none)
RECURSIVE WordEnd(_, _)
WordEnd(s, i) == IF i <= Len(s) /\ Chr(s, i) # " " THEN WordEnd(s, i + 1) ELSE i

\* words.map(...).join(" ") of formatDisplayName, from the word starting at i
RECURSIVE CapitalizeFrom(_, _)
CapitalizeFrom(s, i) ==
    LET e == WordEnd(s, i)
        word == Slice(s, i, e - 1)
        out == IF i = 1 \/ Len(word) > 3
               THEN UpperChar(Chr(word, 1)) \o From(word, 2) ELSE word
    IN  IF e > Len(s) THEN out ELSE out \o " " \o CapitalizeFrom(s, e + 1)

formatDisplayName(canonicalName, baseName) ==
    IF canonicalName = "salt and pepper" THEN "Salt and black pepper"
    ELSE CapitalizeFrom(baseName, 1)

\* a grouping that forgets the base unit; C2_PartitionByKey tells it from groupKey
groupKeyIgnoringBaseUnit(ing) ==
    LET canonical == IF ~Falsy(ing.canonicalName) THEN ing.canonicalName
                     ELSE aggNormalizeCanonicalName(
                              IF ~Falsy(ing.baseName) THEN ing.baseName ELSE ing.name)
    IN  canonical \o "::" \o "none"

groupKey(ing) ==
    LET canonical == IF ~Falsy(ing.canonicalName) THEN ing.canonicalName
                     ELSE aggNormalizeCanonicalName(
                              IF ~Falsy(ing.baseName) THEN ing.baseName ELSE ing.name)
        baseUnit == IF ~Falsy(ing.baseUnit) THEN ing.baseUnit ELSE "none"
    IN  canonical \o "::" \o baseUnit

\* key.split("::")[0] and key.split("::")[1]
KeyCanonicalName(key) == Slice(key, 1, IndexOf(key, "::") - 1)
KeyBaseUnit(key) ==
    LET rest == From(key, IndexOf(key, "::") + 2)
    IN  IF IndexOf(rest, "::") = 0 THEN rest ELSE Slice(rest, 1, IndexOf(rest, "::") - 1)

\* the keys of the Map `groups` in insertion order (lines 137-146)
RECURSIVE GroupKeys(_)
GroupKeys(ings) ==
    IF ings = <<>> THEN <<>>
    ELSE LET front == GroupKeys(SubSeq(ings, 1, Len(ings) - 1))
             key == groupKey(ings[Len(ings)])
         IN  IF key \in Range(front) THEN front ELSE Append(front, key)

\* a filter on truthiness, which drops a quantity of 0; C3_TotalIsSumOfDefined
\* tells it from HasQuantity
HasQuantityTruthy(ing) == Truthy(ing.quantityInBaseUnits)

HasQuantity(ing) == ing.quantityInBaseUnits # Undefined /\ ing.quantityInBaseUnits # Null

\* the reduce of lines 165-168: sum + (ing.quantityInBaseUnits || 0)
RECURSIVE SumQuantities(_)
SumQuantities(ings) ==
    IF ings = <<>> THEN Int2Num(0)
    ELSE LET q == ings[Len(ings)].quantityInBaseUnits
         IN  NumAdd(SumQuantities(SubSeq(ings, 1, Len(ings) - 1)),
                    IF Truthy(q) THEN q ELSE Int2Num(0))

\* the body of the loop of lines 150-252 for one entry of `groups`
AggregateGroup(key, ingredients) ==
    LET canonicalName == KeyCanonicalName(key)
        baseUnit == KeyBaseUnit(key)
        itemsWithQuantity == SelectSeq(ingredients, HasQuantity)
        totalQuantity == IF Len(itemsWithQuantity) > 0
                         THEN SumQuantities(itemsWithQuantity) ELSE Undefined
        first == ingredients[1]
        baseName == IF ~Falsy(first.baseName) THEN first.baseName ELSE first.name
        displayName == formatDisplayName(canonicalName, baseName)
        formatted == formatQuantity(totalQuantity, baseUnit, displayName)
        displayUnit == IF baseUnit = "unit" /\ ~Falsy(first.unit) THEN first.unit
                       ELSE IF baseUnit = "unit" /\ Falsy(formatted.displayUnit) THEN ""
                       ELSE formatted.displayUnit
        entry == [name |-> displayName, canonicalName |-> canonicalName,
                  baseName |-> first.baseName, totalQuantity |-> totalQuantity,
                  unit |-> displayUnit, baseUnit |-> baseUnit,
                  lines |-> ingredients, section |-> "Other"]
    IN  IF canonicalName = "salt and pepper"
        THEN [entry EXCEPT !.totalQuantity = Undefined, !.unit = NoStr,
                           !.baseUnit = "none", !.section = "Spices"]
        ELSE IF Len(itemsWithQuantity) = 0
        THEN [entry EXCEPT !.totalQuantity = Undefined, !.unit = NoStr,
                           !.baseUnit = "none"]
        ELSE entry

aggregateIngredients(ings) ==
    LET keys == GroupKeys(ings)
    IN  [g \in 1..Len(keys) |->
            LET InGroup(ing) == groupKey(ing) = keys[g]
            IN  AggregateGroup(keys[g], SelectSeq(ings, InGroup))]

\* the caller hands the parser's result to aggregateIngredients
Aggregate ==
    /\ pc = "parsed"
    /\ aggregated' = aggregateIngredients(parsed)
    /\ pc' = "aggregated"
    /\ UNCHANGED <<parseVars, threw, catVars, plan, response, call, result,
                   reviewVars, paprikaVars>>

-----------------------------------------------------------------------------
(* categorizer.ts: normalizeForAICategorization.                           *)

\* \w
IsWordChar(c) == IsAlpha(c) \/ IsDigit(c) \/ c = "_"

\* s.replace(/\([^)]*\)/g, "")
RECURSIVE RemoveParentheticals(_)
RemoveParentheticals(s) ==
    LET open == IndexOf(s, "(")
        close == IF open = 0 THEN 0 ELSE IndexOf(From(s, open), ")")
    IN  IF open = 0 \/ close = 0 THEN s
        ELSE Slice(s, 1, open - 1) \o RemoveParentheticals(From(s, open + close))

\* s.substring(0, s.indexOf(",")) when s has a comma
CutAtComma(s) == IF IndexOf(s, ",") = 0 THEN s ELSE Slice(s, 1, IndexOf(s, ",") - 1)

prepWords == <<"minced", "chopped", "diced", "sliced", "grated", "zested", "juiced",
               "halved", "seeded", "spiralized", "rinsed", "drained", "for garnish",
               "optional", "pitted", "trimmed", "peeled", "deveined", "crumbled",
               "riced", "for serving", "cut into", "thick slices", "thin slices">>

\* \bw\b matches at index i of the lower-cased text low
WordAt(low, i, w) ==
    /\ StartsWithAt(low, i, w)
    /\ ~IsWordChar(Chr(low, i - 1))
    /\ ~IsWordChar(Chr(low, i + Len(w)))

\* s.replace(new RegExp(`\\b${w}\\b`, "gi"), "")
RECURSIVE RemoveWord(_, _)
RemoveWord(s, w) ==
    LET low == ToLowerCase(s)
        at == {i \in 1..Len(s) : WordAt(low, i, w)}
    IN  IF at = {} THEN s
        ELSE Slice(s, 1, SetMin(at) - 1) \o RemoveWord(From(s, SetMin(at) + Len(w)), w)

\* the loop over prepWords from entry k on: the entries that match nothing in
\* the current text leave it unchanged, so the loop moves to the next entry
\* that matches
RECURSIVE RemovePrepWords(_, _)
RemovePrepWords(s, k) ==
    LET low == ToLowerCase(s)
        hit == {j \in k..Len(prepWords) :
                   \E i \in 1..Len(s) : WordAt(low, i, prepWords[j])}
    IN  IF hit = {} THEN s
        ELSE RemovePrepWords(RemoveWord(s, prepWords[SetMin(hit)]), SetMin(hit) + 1)

\* end (exclusive) of \d+(\.\d+)? at index i of s; i when there is no digit
DecimalEnd(s, i) ==
    LET a == SkipDigits(s, i)
    IN  IF a > i /\ Chr(s, a) = "." /\ SkipDigits(s, a + 1) > a + 1
        THEN SkipDigits(s, a + 1) ELSE a

\* s.replace(/^\d+(\.\d+)?\s*/g, "")
StripLeadingNumber(s) ==
    IF DecimalEnd(s, 1) > 1 THEN From(s, SkipSpaces(s, DecimalEnd(s, 1))) ELSE s

QuantityUnits == <<"oz", "lb", "lbs", "cup", "cups", "tbsp", "tsp", "tablespoon",
                   "teaspoon", "clove", "cloves", "head", "heads", "bunch", "bunches",
                   "can", "cans", "fillet", "fillets", "breast", "breasts", "inch",
                   "inches">>

\* end (exclusive) of a match of /\s*\d+(\.\d+)?\s*(oz|...)\s*/i starting at
\* index i of the lower-cased text low; 0 when there is none
QuantityUnitEnd(low, i) ==
    LET d == SkipSpaces(low, i)
        \* the digits, then the fraction part when the rest matches with it,
        \* otherwise without it
        e1 == DecimalEnd(low, d)
        e0 == SkipDigits(low, d)
        u1 == AltEnd(low, SkipSpaces(low, e1), QuantityUnits)
        u0 == AltEnd(low, SkipSpaces(low, e0), QuantityUnits)
    IN  IF e0 = d THEN 0
        ELSE IF u1 # 0 THEN SkipSpaces(low, u1)
        ELSE IF u0 # 0 THEN SkipSpaces(low, u0)
        ELSE 0

\* end (exclusive) of a match of /\s*\d+\/\d+\s*/ starting at index i; 0 when none
FractionEnd(s, i) ==
    LET d == SkipSpaces(s, i)
        a == SkipDigits(s, d)
        b == SkipDigits(s, a + 1)
    IN  IF a > d /\ Chr(s, a) = "/" /\ b > a + 1 THEN SkipSpaces(s, b) ELSE 0

\* s.replace(/\s*\d+(\.\d+)?\s*(oz|...)\s*/gi, ""): leftmost matches, left to
\* right, removed
RECURSIVE RemoveQuantityUnits(_)
RemoveQuantityUnits(s) ==
    LET low == ToLowerCase(s)
        at == {i \in 1..Len(s) : QuantityUnitEnd(low, i) # 0}
    IN  IF at = {} THEN s
        ELSE Slice(s, 1, SetMin(at) - 1)
             \o RemoveQuantityUnits(From(s, QuantityUnitEnd(low, SetMin(at))))

\* s.replace(/\s*\d+\/\d+\s*/g, "")
RECURSIVE RemoveFractions(_)
RemoveFractions(s) ==
    LET at == {i \in 1..Len(s) : FractionEnd(s, i) # 0}
    IN  IF at = {} THEN s
        ELSE Slice(s, 1, SetMin(at) - 1)
             \o RemoveFractions(From(s, FractionEnd(s, SetMin(at))))

\* s.replace(/\s+/g, " "): each whitespace run becomes one space
RECURSIVE CollapseSpaces(_)
CollapseSpaces(s) ==
    LET at == {i \in 1..Len(s) : IsSpace(Chr(s, i))}
    IN  IF at = {} THEN s
        ELSE Slice(s, 1, SetMin(at) - 1) \o " "
             \o CollapseSpaces(From(s, SkipSpaces(s, SetMin(at))))

normalizeForAICategorization(raw) ==
    LET n1 == StripOptional(Trim(raw))
        n2 == CutAtComma(RemoveParentheticals(n1))
        n3 == RemovePrepWords(n2, 1)
        n4 == StripLeadingNumber(n3)
        n5 == RemoveQuantityUnits(n4)
        n6 == RemoveFractions(n5)
    IN  ToLowerCase(Trim(CollapseSpaces(n6)))

-----------------------------------------------------------------------------
(* categorizer.ts: postProcessSection.                                     *)

\* text.includes(kw) || canonicalText.includes(kw)
EitherIncludes(text, canonicalText, kw) ==
    Includes(text, kw) \/ Includes(canonicalText, kw)

BellPepperOverride(text, canonicalText) ==
    EitherIncludes(text, canonicalText, "bell pepper")

ProteinOverride(text, canonicalText) ==
    \/ EitherIncludes(text, canonicalText, "salmon")
    \/ EitherIncludes(text, canonicalText, "shrimp")
    \/ EitherIncludes(text, canonicalText, "chicken")
    \/ EitherIncludes(text, canonicalText, "beef")
    \/ EitherIncludes(text, canonicalText, "pork")
    \/ (EitherIncludes(text, canonicalText, "turkey")
           /\ ~Includes(text, "broth") /\ ~Includes(canonicalText, "broth"))
    \/ (EitherIncludes(text, canonicalText, "fish")
           /\ ~Includes(text, "sauce") /\ ~Includes(canonicalText, "sauce"))

\* the produce rules without their "powder" and "paste" exclusions;
\* C7_FirstMatchingOverride tells them from ProduceOverride
ProduceOverrideNoExclusion(text, canonicalText) ==
    \E kw \in {"zucchini", "onion", "garlic", "lemon", "lime", "cilantro", "parsley",
               "basil", "broccoli", "spinach", "carrot", "tomato", "lettuce",
               "cucumber", "avocado", "cauliflower", "snap pea", "green onion"} :
        EitherIncludes(text, canonicalText, kw)

ProduceOverride(text, canonicalText) ==
    \/ EitherIncludes(text, canonicalText, "zucchini")
    \/ (EitherIncludes(text, canonicalText, "onion")
           /\ ~Includes(text, "powder") /\ ~Includes(canonicalText, "powder"))
    \/ (EitherIncludes(text, canonicalText, "garlic")
           /\ ~Includes(text, "powder") /\ ~Includes(canonicalText, "powder"))
    \/ EitherIncludes(text, canonicalText, "lemon")
    \/ EitherIncludes(text, canonicalText, "lime")
    \/ EitherIncludes(text, canonicalText, "cilantro")
    \/ EitherIncludes(text, canonicalText, "parsley")
    \/ EitherIncludes(text, canonicalText, "basil")
    \/ EitherIncludes(text, canonicalText, "broccoli")
    \/ EitherIncludes(text, canonicalText, "spinach")
    \/ EitherIncludes(text, canonicalText, "carrot")
    \/ (EitherIncludes(text, canonicalText, "tomato")
           /\ ~Includes(text, "paste") /\ ~Includes(canonicalText, "paste"))
    \/ EitherIncludes(text, canonicalText, "lettuce")
    \/ EitherIncludes(text, canonicalText, "cucumber")
    \/ EitherIncludes(text, canonicalText, "avocado")
    \/ EitherIncludes(text, canonicalText, "cauliflower")
    \/ EitherIncludes(text, canonicalText, "snap pea")
    \/ EitherIncludes(text, canonicalText, "green onion")

DairyOverride(text) ==
    \/ Includes(text, "parmesan")
    \/ Includes(text, "feta")
    \/ Includes(text, "mozzarella")
    \/ (Includes(text, "cheese") /\ ~Includes(text, "sauce"))

PantryOverride(text) ==
    \/ Includes(text, "olive oil")
    \/ Includes(text, "sesame oil")
    \/ Includes(text, "coconut oil")
    \/ Includes(text, "vinegar")
    \/ Includes(text, "broth")
    \/ Includes(text, "stock")
    \/ Includes(text, "coconut milk")
    \/ Includes(text, "fish sauce")
    \/ Includes(text, "soy sauce")

SpicesOverride(text) ==
    \/ Includes(text, "cumin") \/ Includes(text, "paprika")
    \/ Includes(text, "turmeric") \/ Includes(text, "cinnamon")
    \/ Includes(text, "chili") \/ Includes(text, "coriander")
    \/ Includes(text, "garlic powder") \/ Includes(text, "onion powder")

postProcessSection(name, aiSection, canonicalName) ==
    LET text == ToLowerCase(name)
        canonicalText == IF Falsy(canonicalName) THEN "" ELSE ToLowerCase(canonicalName)
    IN  IF BellPepperOverride(text, canonicalText) THEN "Produce"
        ELSE IF ProteinOverride(text, canonicalText) THEN "Meat/Fish"
        ELSE IF ProduceOverride(text, canonicalText) THEN "Produce"
        ELSE IF DairyOverride(text) THEN "Dairy"
        ELSE IF PantryOverride(text) THEN "Pantry"
        ELSE IF SpicesOverride(text) THEN "Spices"
        ELSE aiSection

-----------------------------------------------------------------------------
(* categorizer.ts: categorizeIngredient and categorizeIngredients, each    *)
(* split at its await of the classifier.                                   *)

\* an element of the `ingredients` argument; the caller passes
\* names = ingredients.map(i => i.name)
Ingredient(name, canonicalName, baseName) ==
    [name |-> name, canonicalName |-> canonicalName, baseName |-> baseName]

SinglePool ==
    {Ingredient("Salmon Fillets", "salmon", "salmon fillets"),
     Ingredient("Bell Pepper", "bell pepper", "bell pepper"),
     Ingredient("Garlic Powder", "garlic powder", "garlic powder"),
     Ingredient("Peppers", "bell pepper", "peppers"),
     Ingredient("Flour", "flour", "flour"),
     Ingredient("Chickpeas", NoStr, NoStr),
     Ingredient("Garlic", "garlic", "garlic"),
     Ingredient("Onion Powder", "onion powder", "onion powder"),
     Ingredient("Olive Oil", "olive oil", "olive oil"),
     Ingredient("Turkey Broth", "turkey broth", "turkey broth"),
     Ingredient("Chicken Broth", "chicken broth", "chicken broth"),
     Ingredient("Fish Sauce", "fish sauce", "fish sauce"),
     Ingredient("Tomato Paste", "tomato paste", "tomato paste"),
     Ingredient("Cheese Sauce", "cheese sauce", "cheese sauce"),
     Ingredient("Parmesan Cheese", "parmesan cheese", "parmesan cheese"),
     Ingredient("Cumin", "cumin", "cumin"),
     Ingredient("2 Limes, juiced", NoStr, "limes"),
     Ingredient("2 cups cooked chickpeas (or 1 can and drained)", "chickpeas", "chickpeas"),
     Ingredient("quinoa", "quinoa", "quinoa"),
     Ingredient("red lentils", "red lentils", "red lentils"),
     Ingredient("EVOO", "olive oil", "evoo"),
     Ingredient("Parmigiano Reggiano", "parmesan cheese", "parmigiano reggiano")}

BatchPool ==
    {Ingredient("Salmon Fillets", "salmon", "salmon fillets"),
     Ingredient("Bell Pepper", "bell pepper", "bell pepper"),
     Ingredient("Garlic Powder", "garlic powder", "garlic powder"),
     Ingredient("Peppers", "bell pepper", "peppers"),
     Ingredient("Flour", "flour", "flour"),
     Ingredient("Chickpeas", NoStr, NoStr)}

\* the sections the classifier may name for a key (one of them is not an
\* IngredientCategory); NoStr: the key is missing from its answer
AnswerValues == {"Spices", "Bakery", NoStr}

\* what the await of callOpenAI ends with: a rejection, or a text that is
\* plain JSON, JSON in a markdown fence, JSON inside prose, or no JSON; the
\* JSON value is an object from the requested keys to sections
NoAnswer == [kind |-> "none"]
ClassifierResponses(keys) ==
    {[kind |-> "throw"], [kind |-> "text", form |-> "garbage"]}
    \cup {[kind |-> "text", form |-> form, categories |-> c] :
            form \in {"plain", "fenced", "embedded"}, c \in [keys -> AnswerValues]}

\* cleanAndParseJSON throws: the fence is stripped, the text is parsed, and a
\* failed parse is retried on the outermost {...} of the text
cleanAndParseJSONThrows(resp) == resp.form = "garbage"

ClassifierFails(resp) == resp.kind = "throw" \/ cleanAndParseJSONThrows(resp)

\* categories[key] || "Other"
SectionOrOther(categories, key) ==
    IF key \in DOMAIN categories /\ ~Falsy(categories[key]) THEN categories[key]
    ELSE "Other"

\* canonicalName || baseName || name
IngredientName(ing) ==
    IF ~Falsy(ing.canonicalName) THEN ing.canonicalName
    ELSE IF ~Falsy(ing.baseName) THEN ing.baseName ELSE ing.name

\* canonicalName || baseName
CanonicalOrBase(ing) ==
    IF ~Falsy(ing.canonicalName) THEN ing.canonicalName ELSE ing.baseName

\* ingredients?.find(ing => ing.name === name)
FindIngredient(ingredients, name) ==
    ingredients[SetMin({i \in 1..Len(ingredients) : ingredients[i].name = name})]

\* nameToNormalized.get(name) || name
NormalizedOrName(ingredients, name) ==
    LET normalized == normalizeForAICategorization(
                          IngredientName(FindIngredient(ingredients, name)))
    IN  IF normalized = "" THEN name ELSE normalized

Names(ingredients) == {ingredients[i].name : i \in 1..Len(ingredients)}

\* the array normalizedForAI sent to the classifier
RequestedKeys(ingredients) ==
    {normalizeForAICategorization(IngredientName(ingredients[i])) :
        i \in 1..Len(ingredients)}

\* categorizeIngredient, lines 173-178: the call up to its await
CategorizeIngredientStart ==
    /\ pc = "catStart"
    /\ catMode = "single"
    /\ IF ~catUseAI
       THEN /\ catOut' = [n \in Names(catInput) |->
                             postProcessSection(n, "Other", NoStr)]
            /\ pc' = "catDone"
            /\ UNCHANGED clsCalls
       ELSE /\ clsCalls' = clsCalls + 1
            /\ pc' = "awaitClassifier"
            /\ UNCHANGED catOut
    /\ UNCHANGED <<parseVars, threw, aggregated, catMode, catInput, catUseAI, catAnswer,
                   plan, response, call, result,
                   reviewVars, paprikaVars>>

\* categorizeIngredient, lines 204-211: the await ends
CategorizeIngredientEnd ==
    /\ pc = "awaitClassifier"
    /\ catMode = "single"
    /\ \E resp \in ClassifierResponses(RequestedKeys(catInput)) :
          /\ catAnswer' = resp
          /\ catOut' =
               [n \in Names(catInput) |->
                  IF ClassifierFails(resp)
                  THEN postProcessSection(n, "Other", NoStr)
                  ELSE postProcessSection(
                           n,
                           SectionOrOther(resp.categories,
                               ToLowerCase(normalizeForAICategorization(
                                   IngredientName(catInput[1])))),
                           CanonicalOrBase(catInput[1]))]
    /\ pc' = "catDone"
    /\ UNCHANGED <<parseVars, threw, aggregated, catMode, catInput, catUseAI, clsCalls,
                   plan, response, call, result,
                   reviewVars, paprikaVars>>

\* categorizeIngredients, lines 224-249: the call up to its await
CategorizeIngredientsStart ==
    /\ pc = "catStart"
    /\ catMode = "batch"
    /\ IF ~catUseAI \/ Len(catInput) = 0
       THEN /\ catOut' = [n \in Names(catInput) |-> "Other"]
            /\ pc' = "catDone"
            /\ UNCHANGED clsCalls
       ELSE /\ clsCalls' = clsCalls + 1
            /\ pc' = "awaitClassifier"
            /\ UNCHANGED catOut
    /\ UNCHANGED <<parseVars, threw, aggregated, catMode, catInput, catUseAI, catAnswer,
                   plan, response, call, result,
                   reviewVars, paprikaVars>>

\* a categorizeIngredients without the try/catch of lines 248-289: a failure
\* of the classification call escapes to the caller
CategorizeIngredientsEndUncaught ==
    /\ pc = "awaitClassifier"
    /\ catMode = "batch"
    /\ \E resp \in ClassifierResponses(RequestedKeys(catInput)) :
          /\ catAnswer' = resp
          /\ threw' = ClassifierFails(resp)
          /\ catOut' =
               [n \in Names(catInput) |->
                  IF ClassifierFails(resp) THEN NoStr
                  ELSE postProcessSection(
                           n,
                           SectionOrOther(resp.categories,
                               ToLowerCase(NormalizedOrName(catInput, n))),
                           CanonicalOrBase(FindIngredient(catInput, n)))]
    /\ pc' = "catDone"
    /\ UNCHANGED <<parseVars, aggregated, catMode, catInput, catUseAI, clsCalls,
                   plan, response, call, result,
                   reviewVars, paprikaVars>>

\* categorizeIngredients, lines 268-291: the await ends
CategorizeIngredientsEnd ==
    /\ pc = "awaitClassifier"
    /\ catMode = "batch"
    /\ \E resp \in ClassifierResponses(RequestedKeys(catInput)) :
          /\ catAnswer' = resp
          /\ catOut' =
               [n \in Names(catInput) |->
                  IF ClassifierFails(resp) THEN "Other"
                  ELSE postProcessSection(
                           n,
                           SectionOrOther(resp.categories,
                               ToLowerCase(NormalizedOrName(catInput, n))),
                           CanonicalOrBase(FindIngredient(catInput, n)))]
    /\ pc' = "catDone"
    /\ UNCHANGED <<parseVars, threw, aggregated, catMode, catInput, catUseAI, clsCalls,
                   plan, response, call, result,
                   reviewVars, paprikaVars>>

-----------------------------------------------------------------------------
(* app/api/grocery-list/route.ts: POST.                                    *)

\* text.split("\n")
RECURSIVE SplitLines(_)
SplitLines(text) ==
    IF IndexOf(text, "\n") = 0 THEN <<text>>
    ELSE <<Slice(text, 1, IndexOf(text, "\n") - 1)>>
         \o SplitLines(From(text, IndexOf(text, "\n") + 1))

\* lines 57-61 and 72-74: the lines of an ingredients value, which is absent,
\* a string or an array of strings; blank lines are filtered out
IngredientLines(ingredients) ==
    LET NonBlank(l) == Trim(l) # ""
    IN  IF ingredients.kind = "string"
        THEN SelectSeq(SplitLines(ingredients.text), NonBlank)
        ELSE IF ingredients.kind = "array" THEN SelectSeq(ingredients.items, NonBlank)
        ELSE <<>>

\* what client.getRecipe(uid) ends with: a rejection or a recipe
PaprikaFetches ==
    {[kind |-> "throw"],
     [kind |-> "recipe",
      ingredients |-> [kind |-> "string", text |-> "2 cloves garlic, minced\n3 eggs\n"]],
     [kind |-> "recipe", ingredients |-> [kind |-> "absent"]]}

\* lines 51-81: the lines one meal contributes; client is TRUE when the
\* credentials are set and login() succeeded, fetch is what getRecipe ends with
MealLines(meal, client, fetch) ==
    LET \* if (recipeIngredients): an empty string is falsy, an array never is
        HasIngredients ==
            \/ meal.ingredients.kind = "array"
            \/ meal.ingredients.kind = "string" /\ meal.ingredients.text # ""
    IN  IF HasIngredients THEN IngredientLines(meal.ingredients)
        ELSE IF meal.uid # "" /\ ~StartsWith(meal.uid, "generated-") /\ client
        THEN IF fetch.kind = "throw" \/ fetch.ingredients.kind # "string" THEN <<>>
             ELSE IngredientLines(fetch.ingredients)
        ELSE <<>>

\* allIngredientLines after the loop over plan.meals
RECURSIVE CollectLines(_, _, _)
CollectLines(meals, client, fetch) ==
    IF meals = <<>> THEN <<>>
    ELSE CollectLines(SubSeq(meals, 1, Len(meals) - 1), client, fetch)
         \o MealLines(meals[Len(meals)], client, fetch)

\* the plans of the request bodies
PlanPool ==
    LET Absent == [kind |-> "absent"]
        Text(text) == [kind |-> "string", text |-> text]
        List(items) == [kind |-> "array", items |-> items]
        Meal(uid, ingredients) == [uid |-> uid, ingredients |-> ingredients]
        Plan(meals) == [present |-> TRUE, meals |-> meals]
    IN  {[present |-> FALSE, meals |-> <<>>],
         Plan(<<>>),
         Plan(<<Meal("generated-1", Absent)>>),
         Plan(<<Meal("generated-2", Text(""))>>),
         Plan(<<Meal("generated-3", List(<<" ", "">>))>>),
         Plan(<<Meal("generated-4", List(<<"2 cups flour", " ", "3 eggs">>))>>),
         Plan(<<Meal("generated-5", Text("olive oil\n\n1/2 tsp salt and pepper")),
                Meal("generated-6", List(<<"Salt and pepper to taste">>))>>),
         Plan(<<Meal("A1B2", Absent)>>)}

\* lines 19-91: the request up to the call of parseIngredients(lines, true),
\* or to one of the two 400 responses
RouteCollect ==
    /\ pc = "request"
    /\ IF ~plan.present \/ Len(plan.meals) = 0
       THEN /\ response' = [status |-> 400, error |-> "No meals provided in plan"]
            /\ pc' = "responded"
            /\ UNCHANGED <<lines, useAI>>
       ELSE \E client \in BOOLEAN, fetch \in PaprikaFetches :
               IF CollectLines(plan.meals, client, fetch) = <<>>
               THEN /\ response' = [status |-> 400,
                                    error |-> "No ingredients found in recipes"]
                    /\ pc' = "responded"
                    /\ UNCHANGED <<lines, useAI>>
               ELSE /\ lines' = CollectLines(plan.meals, client, fetch)
                    /\ useAI' = TRUE
                    /\ pc' = "start"
                    /\ UNCHANGED response
    /\ UNCHANGED <<simpleLines, complexLines, simpleResults, aiCalls, aiRequest,
                   aiAnswer, parsed, threw, aggregated, catVars, plan, call, result,
                   reviewVars, paprikaVars>>

\* lines 97-104: the arguments of categorizeIngredients(names, true, ...)
RouteCategorize ==
    LET \* a.canonicalName || a.lines[0]?.canonicalName (and the same for baseName)
        OwnOrFirstLine(own, line) == IF ~Falsy(own) THEN own ELSE line
    IN  /\ pc = "aggregated"
        /\ catMode' = "batch"
        /\ catUseAI' = TRUE
        /\ catInput' = [g \in 1..Len(aggregated) |->
                           Ingredient(aggregated[g].name,
                                      OwnOrFirstLine(aggregated[g].canonicalName,
                                                     aggregated[g].lines[1].canonicalName),
                                      OwnOrFirstLine(aggregated[g].baseName,
                                                     aggregated[g].lines[1].baseName))]
        /\ pc' = "catStart"
        /\ UNCHANGED <<parseVars, threw, aggregated, catAnswer, catOut, clsCalls,
                       plan, response, call, result,
                   reviewVars, paprikaVars>>

\* notesFormatter.ts, lines 11-33. The pattern /\s+for\s+garnish\s*$/i is
\* matched with single spaces inside "for garnish".
cleanGroceryDisplayName(name) ==
    LET AfterGarnish(c) ==
            IF EndsWith(ToLowerCase(c), "for garnish")
               /\ SpaceRunStart(c, Len(c) - 10) < Len(c) - 10
            THEN Slice(c, 1, SpaceRunStart(c, Len(c) - 10) - 1) ELSE c
        AfterComma(c) == Trim(CollapseSpaces(AfterGarnish(TrimEnd(CutAtComma(c)))))
        AfterOptional(c) == AfterComma(RemoveParentheticals(c))
    IN  AfterOptional(StripOptional(Trim(name)))

CATEGORY_ORDER ==
    <<"Produce", "Meat/Fish", "Dairy", "Dry Goods", "Pantry", "Spices", "Other">>

\* notesFormatter.ts, lines 48-128: the lines of the text, before join("\n").
\* The route always passes a week label. A bullet is kept as the parts its
\* text is built from, with the position of its entry in the argument.
formatGroceryListForNotes(entries) ==
    LET \* ingredient.category || "Other"
        CategoryOf(ingredient) ==
            IF "category" \in DOMAIN ingredient /\ ~Falsy(ingredient.category)
            THEN ingredient.category ELSE "Other"
        Bullet(g) ==
            LET ingredient == entries[g]
                cleanName == cleanGroceryDisplayName(ingredient.name)
                baseUnit == IF Falsy(ingredient.baseUnit) THEN "none" ELSE ingredient.baseUnit
                formatted == formatQuantity(ingredient.totalQuantity, baseUnit, cleanName)
                firstLine == ingredient.lines[1]
                finalUnit ==
                    IF baseUnit = "unit" /\ Len(ingredient.lines) > 0
                    THEN IF ~Falsy(firstLine.unit) THEN firstLine.unit
                         ELSE IF Falsy(formatted.displayUnit)
                         THEN IF Falsy(ingredient.unit) THEN "" ELSE ingredient.unit
                         ELSE formatted.displayUnit
                    ELSE IF baseUnit = "unit" /\ ~Falsy(ingredient.unit) THEN ingredient.unit
                    ELSE formatted.displayUnit
            IN  [kind |-> "bullet", entry |-> g, name |-> cleanName,
                 quantity |-> formatted.displayQuantity,
                 unit |-> IF formatted.displayQuantity # Undefined /\ ~Falsy(finalUnit)
                          THEN finalUnit ELSE NoStr]
        InCategory(category) ==
            SelectSeq([g \in 1..Len(entries) |-> g],
                      LAMBDA g : CategoryOf(entries[g]) = category)
        Block(category) ==
            LET ingredients == InCategory(category)
            IN  IF Len(ingredients) = 0 THEN <<>>
                ELSE <<[kind |-> "heading", text |-> category]>>
                     \o [k \in 1..Len(ingredients) |-> Bullet(ingredients[k])]
                     \o <<[kind |-> "blank"]>>
        Lines[c \in 0..Len(CATEGORY_ORDER)] ==
            IF c = 0 THEN <<[kind |-> "title"], [kind |-> "blank"]>>
            ELSE Lines[c - 1] \o Block(CATEGORY_ORDER[c])
        all == Lines[Len(CATEGORY_ORDER)]
    IN  \* lines.join("\n").trim()
        IF all[Len(all)].kind = "blank" THEN SubSeq(all, 1, Len(all) - 1) ELSE all

\* lines 107-148: the sections are assigned and the response is returned (on
\* success with the entries handed to formatGroceryListForNotes); an exception
\* that escaped one of the calls ends in the 500 response
RouteRespond ==
    LET \* categories.get(ingredient.name) || "Other"
        CategoryOrOther(name) ==
            IF name \in DOMAIN catOut /\ ~Falsy(catOut[name]) THEN catOut[name]
            ELSE "Other"
    IN  /\ pc = "catDone"
        /\ aggregated' = [g \in 1..Len(aggregated) |->
                             [aggregated[g] EXCEPT
                                  !.section = CategoryOrOther(aggregated[g].name)]
                             @@ [category |-> CategoryOrOther(aggregated[g].name)]]
        /\ response' = IF threw THEN [status |-> 500, error |-> "Unknown error occurred"]
                       ELSE [status |-> 200, success |-> TRUE, entries |-> aggregated',
                             groceryList |-> formatGroceryListForNotes(aggregated')]
        /\ pc' = "responded"
        /\ UNCHANGED <<parseVars, threw, catVars, plan, call, result,
                   reviewVars, paprikaVars>>

-----------------------------------------------------------------------------
(* app/plan/review/page.tsx: PlanReviewPage.                               *)

\* the stored plans the page loads: no meal, one meal, two meals; the key of
\* a meal is `${m.day}-${m.date.toISOString()}`, one key per day of the plan
MealKeys == {"monday", "tuesday"}
ReviewPlanPool ==
    {<<>>,
     <<[key |-> "monday", recipe |-> "planned-monday"]>>,
     <<[key |-> "monday", recipe |-> "planned-monday"],
       [key |-> "tuesday", recipe |-> "planned-tuesday"]>>}
KeysOf(meals) == {meals[i].key : i \in 1..Len(meals)}
RecipeOf(meals, mealKey) ==
    (CHOOSE m \in Range(meals) : m.key = mealKey).recipe

\* the recipes /api/plan/replace and /api/plan answer with
ReplacementPool == {"replacement"}
RegeneratedPool == {"regenerated"}

\* lines 303-305 and 370-372: the row flags and the Finalize button's condition
allApproved ==
    /\ Len(reviewPlan) > 0
    /\ \A i \in 1..Len(reviewPlan) : reviewPlan[i].key \in approvedMeals

\* the row of mealKey shows the buttons Approve and Replace (lines 447-475)
ShowsRowButtons(mealKey) ==
    /\ pc = "review"
    /\ mealKey \in KeysOf(reviewPlan)
    /\ replacingMeal # mealKey
    /\ showReplaceInput # mealKey
    /\ mealKey \notin approvedMeals

\* lines 113-122
handleApprove(mealKey) ==
    /\ ShowsRowButtons(mealKey)
    /\ approvedMeals' = approvedMeals \cup {mealKey}
    /\ storedApproved' = approvedMeals'
    /\ approvedAs' = [k \in approvedMeals' |->
                         IF k = mealKey THEN RecipeOf(reviewPlan, mealKey) ELSE approvedAs[k]]
    /\ UNCHANGED <<pc, serverVars, paprikaVars, reviewPlan, storedPlan, replacingMeal,
                   showReplaceInput, isRegenerating, planParams, requests, finalizedPlan>>

\* lines 124-127
handleReplaceClick(mealKey) ==
    /\ ShowsRowButtons(mealKey)
    /\ showReplaceInput' = mealKey
    /\ UNCHANGED <<pc, serverVars, paprikaVars, reviewPlan, storedPlan, approvedMeals,
                   storedApproved, approvedAs, replacingMeal, isRegenerating, planParams,
                   requests, finalizedPlan>>

\* lines 129-132: Cancel in the row that shows the guidance input
handleReplaceCancel ==
    /\ pc = "review"
    /\ showReplaceInput \in KeysOf(reviewPlan)
    /\ replacingMeal # showReplaceInput
    /\ showReplaceInput' = NoStr
    /\ UNCHANGED <<pc, serverVars, paprikaVars, reviewPlan, storedPlan, approvedMeals,
                   storedApproved, approvedAs, replacingMeal, isRegenerating, planParams,
                   requests, finalizedPlan>>

\* lines 134-161: Suggest, up to the await of the fetch; the continuation
\* keeps the `plan` and `approvedMeals` of the render the click happened in
handleReplace(mealKey) ==
    /\ pc = "review"
    /\ showReplaceInput = mealKey
    /\ mealKey \in KeysOf(reviewPlan)
    /\ replacingMeal # mealKey
    /\ Len(requests) < MaxRequests
    /\ replacingMeal' = mealKey
    /\ showReplaceInput' = NoStr
    /\ requests' = Append(requests, [kind |-> "replace", mealKey |-> mealKey,
                                     plan |-> reviewPlan, approvedMeals |-> approvedMeals])
    /\ UNCHANGED <<pc, serverVars, paprikaVars, reviewPlan, storedPlan, approvedMeals,
                   storedApproved, approvedAs, isRegenerating, planParams, finalizedPlan>>

\* lines 163-211: the fetch of request r ended; ok is FALSE for a response
\* that is not ok or carries no recipe. The route answers 400 when
\* currentRecipes is empty (part_007:26-31), that is for a plan of one meal.
ReplaceResponse(r, ok, newRecipe) ==
    LET req == requests[r]
        updatedPlan == [i \in 1..Len(req.plan) |->
                           IF req.plan[i].key = req.mealKey
                           THEN [req.plan[i] EXCEPT !.recipe = newRecipe]
                           ELSE req.plan[i]]
        newApproved == req.approvedMeals \ {req.mealKey}
    IN  /\ pc = "review"
        /\ req.kind = "replace"
        /\ ok => Len(req.plan) > 1
        /\ IF ok
           THEN /\ reviewPlan' = updatedPlan
                /\ storedPlan' = updatedPlan
                /\ IF req.mealKey \in req.approvedMeals
                   THEN /\ approvedMeals' = newApproved
                        /\ storedApproved' = newApproved
                        /\ approvedAs' = [k \in newApproved |->
                                             IF k \in DOMAIN approvedAs THEN approvedAs[k]
                                             ELSE RecipeOf(updatedPlan, k)]
                   ELSE UNCHANGED <<approvedMeals, storedApproved, approvedAs>>
           ELSE UNCHANGED <<reviewPlan, storedPlan, approvedMeals, storedApproved,
                            approvedAs>>
        /\ replacingMeal' = NoStr
        /\ requests' = [i \in 1..(Len(requests) - 1) |->
                           IF i < r THEN requests[i] ELSE requests[i + 1]]
        /\ UNCHANGED <<pc, serverVars, paprikaVars, showReplaceInput, isRegenerating,
                       planParams, finalizedPlan>>

\* lines 214-230: Regenerate All, up to the await of the fetch
handleRegenerateAll ==
    /\ pc = "review"
    /\ Len(reviewPlan) > 0
    /\ ~isRegenerating
    /\ planParams
    /\ Len(requests) < MaxRequests
    /\ isRegenerating' = TRUE
    /\ requests' = Append(requests, [kind |-> "regenerate"])
    /\ UNCHANGED <<pc, serverVars, paprikaVars, reviewPlan, storedPlan, approvedMeals,
                   storedApproved, approvedAs, replacingMeal, showReplaceInput,
                   planParams, finalizedPlan>>

\* lines 232-271: the fetch of request r ended; ok is FALSE for a response
\* that is not ok or carries no plan; newRecipes are the recipes of the new
\* plan, one for each day of the plan parameters
RegenerateResponse(r, ok, newRecipes) ==
    LET planWithDates == [i \in 1..Len(reviewPlan) |->
                             [key |-> reviewPlan[i].key, recipe |-> newRecipes[i]]]
    IN  /\ pc = "review"
        /\ requests[r].kind = "regenerate"
        /\ IF ok
           THEN /\ reviewPlan' = planWithDates
                /\ storedPlan' = planWithDates
                /\ approvedMeals' = {}
                /\ storedApproved' = {}
                /\ approvedAs' = <<>>
           ELSE UNCHANGED <<reviewPlan, storedPlan, approvedMeals, storedApproved,
                            approvedAs>>
        /\ isRegenerating' = FALSE
        /\ requests' = [i \in 1..(Len(requests) - 1) |->
                           IF i < r THEN requests[i] ELSE requests[i + 1]]
        /\ UNCHANGED <<pc, serverVars, paprikaVars, replacingMeal, showReplaceInput,
                       planParams, finalizedPlan>>

\* a Finalize Plan button that is never disabled
handleFinalizeAlwaysEnabled ==
    LET IsApproved(m) == m.key \in approvedMeals
    IN  /\ pc = "review"
        /\ Len(reviewPlan) > 0
        /\ finalizedPlan' = [written |-> TRUE, meals |-> SelectSeq(reviewPlan, IsApproved)]
        /\ pc' = "groceryList"
        /\ UNCHANGED <<serverVars, paprikaVars, reviewPlan, storedPlan, approvedMeals,
                       storedApproved, approvedAs, replacingMeal, showReplaceInput,
                       isRegenerating, planParams, requests>>

\* lines 274-301 behind the button of lines 343-347 (disabled={!allApproved})
handleFinalize ==
    LET IsApproved(m) == m.key \in approvedMeals
    IN  /\ pc = "review"
        /\ allApproved
        /\ finalizedPlan' = [written |-> TRUE, meals |-> SelectSeq(reviewPlan, IsApproved)]
        /\ pc' = "groceryList"
        /\ UNCHANGED <<serverVars, paprikaVars, reviewPlan, storedPlan, approvedMeals,
                       storedApproved, approvedAs, replacingMeal, showReplaceInput,
                       isRegenerating, planParams, requests>>

-----------------------------------------------------------------------------
(* lib/paprika/client.ts: PaprikaClient. login is split at its await of    *)
(* the login request; a get call is one step, with the outcome of its      *)
(* request.                                                                *)

\* what the await of the login request and of res.json() ends with: a
\* rejection, or a JSON object read with res.ok; the object may carry
\* `error`, and a value (a string, a number, or nothing) at result.token, at
\* token and at data.token
LoginResponses ==
    LET Values == {[t |-> "absent"], [t |-> "string", s |-> ""],
                   [t |-> "string", s |-> "token-a"], [t |-> "number", v |-> 17]}
    IN  {[kind |-> "reject"]}
        \cup [kind : {"json"}, ok : BOOLEAN, error : BOOLEAN,
              resultToken : Values \cup {[t |-> "string", s |-> "token-b"]},
              topToken : Values, dataToken : Values]

\* lines 75-96: the local `token` after the three structures were tried
LoginToken(data) ==
    LET \* !token, for a missing value, a string or a number other than 0
        Not(v) == v.t = "absent" \/ (v.t = "string" /\ v.s = "")
        structure1 == data.resultToken
        structure2 == IF Not(structure1) /\ data.topToken.t # "absent"
                      THEN data.topToken ELSE structure1
    IN  IF Not(structure2) /\ data.dataToken.t # "absent"
        THEN data.dataToken ELSE structure2

\* lines 38-50: login() up to the await of the login request
login ==
    /\ pc = "paprika"
    /\ loginsInFlight < MaxLogins
    /\ loginsInFlight' = loginsInFlight + 1
    /\ UNCHANGED <<pc, serverVars, reviewVars, token, syncRequests, lastCall, lastLogin,
                   loginSucceeded>>

\* lines 52-106: the login request ended and login() returns or throws
LoginResponse(resp) ==
    LET \* !token || typeof token !== "string"
        NoToken(v) == v.t # "string" \/ v.s = ""
        throws == \/ resp.kind = "reject"
                  \/ resp.error
                  \/ ~resp.ok
                  \/ NoToken(LoginToken(resp))
    IN  /\ pc = "paprika"
        /\ loginsInFlight > 0
        /\ loginsInFlight' = loginsInFlight - 1
        /\ lastLogin' = [ended |-> TRUE, threw |-> throws, response |-> resp]
        /\ IF throws
           THEN UNCHANGED <<token, loginSucceeded>>
           ELSE /\ token' = LoginToken(resp).s
                /\ loginSucceeded' = TRUE
        /\ UNCHANGED <<pc, serverVars, reviewVars, syncRequests, lastCall>>

\* the guard `if (!this.token) throw` and the request that follows it; ok is
\* FALSE when the request fails or its answer is not accepted
RequireTokenThenFetch(fn, ok) ==
    /\ IF Falsy(token)
       THEN /\ lastCall' = [fn |-> fn, sent |-> FALSE, threw |-> TRUE]
            /\ UNCHANGED syncRequests
       ELSE /\ syncRequests < MaxSyncRequests
            /\ syncRequests' = syncRequests + 1
            /\ lastCall' = [fn |-> fn, sent |-> TRUE, threw |-> ~ok]
    /\ UNCHANGED <<pc, serverVars, reviewVars, token, loginsInFlight, lastLogin,
                   loginSucceeded>>

\* lines 109-152
getRecipes(ok) ==
    /\ pc = "paprika"
    /\ RequireTokenThenFetch("getRecipes", ok)

\* a getRecipe without the guard of lines 155-157
getRecipeUnguarded(ok) ==
    /\ pc = "paprika"
    /\ syncRequests < MaxSyncRequests
    /\ syncRequests' = syncRequests + 1
    /\ lastCall' = [fn |-> "getRecipe", sent |-> TRUE, threw |-> ~ok]
    /\ UNCHANGED <<pc, serverVars, reviewVars, token, loginsInFlight, lastLogin,
                   loginSucceeded>>

\* lines 154-195
getRecipe(ok) ==
    /\ pc = "paprika"
    /\ RequireTokenThenFetch("getRecipe", ok)

\* lines 197-240
getCategories(ok) ==
    /\ pc = "paprika"
    /\ RequireTokenThenFetch("getCategories", ok)

-----------------------------------------------------------------------------
(* Specifications.                                                         *)

ParserIdle ==
    /\ lines = <<>>
    /\ useAI = FALSE
    /\ simpleLines = <<>>
    /\ complexLines = <<>>
    /\ simpleResults = <<>>
    /\ aiCalls = 0
    /\ aiRequest = <<>>
    /\ aiAnswer = NoAnswer

CategorizerIdle ==
    /\ catMode = "idle"
    /\ catInput = <<>>
    /\ catUseAI = FALSE
    /\ catAnswer = NoAnswer
    /\ catOut = <<>>
    /\ clsCalls = 0

\* the review page is not mounted
ReviewIdle ==
    /\ reviewPlan = <<>>
    /\ storedPlan = <<>>
    /\ approvedMeals = {}
    /\ storedApproved = {}
    /\ approvedAs = <<>>
    /\ replacingMeal = NoStr
    /\ showReplaceInput = NoStr
    /\ isRegenerating = FALSE
    /\ planParams = FALSE
    /\ requests = <<>>
    /\ finalizedPlan = [written |-> FALSE]

\* no PaprikaClient is in use
PaprikaIdle ==
    /\ token = NoStr
    /\ loginsInFlight = 0
    /\ syncRequests = 0
    /\ lastCall = [fn |-> "none"]
    /\ lastLogin = [ended |-> FALSE]
    /\ loginSucceeded = FALSE

\* the grocery-list pipeline: parseIngredients(lines, useAI), then
\* aggregateIngredients on its result
Init ==
    /\ pc = "start"
    /\ lines \in SeqsUpTo(LinePool, MaxLines)
    /\ useAI \in BOOLEAN
    /\ simpleLines = <<>>
    /\ complexLines = <<>>
    /\ simpleResults = <<>>
    /\ aiCalls = 0
    /\ aiRequest = <<>>
    /\ aiAnswer = NoAnswer
    /\ threw = FALSE
    /\ parsed = <<>>
    /\ aggregated = <<>>
    /\ CategorizerIdle
    /\ plan = [present |-> FALSE, meals |-> <<>>]
    /\ response = [status |-> 0]
    /\ call = [fn |-> "none"]
    /\ result = [fn |-> "none"]
    /\ ReviewIdle
    /\ PaprikaIdle

Next == ParseStart \/ AIRespond \/ Aggregate

Spec == Init /\ [][Next]_vars

\* a ParsedIngredient handed to aggregateIngredients by any caller
ParsedRecord(name, baseName, canonicalName, quantity, unit, baseUnit, quantityInBaseUnits) ==
    [name |-> name, baseName |-> baseName, prepNote |-> NoStr,
     canonicalName |-> canonicalName, quantity |-> quantity, unit |-> unit,
     baseUnit |-> baseUnit, quantityInBaseUnits |-> quantityInBaseUnits,
     originalText |-> name, raw |-> name]

RecordPool ==
    {ParsedRecord("2 cloves garlic, minced", NoStr, "garlic", Int2Num(2), "cloves",
                  "unit", Int2Num(2)),
     ParsedRecord("garlic", "garlic", "garlic", Int2Num(4), NoStr, "unit", Int2Num(4)),
     ParsedRecord("garlic, minced", "garlic", "garlic", Num(1, 2), "tbsp", "tbsp",
                  Num(1, 2)),
     ParsedRecord("garlic cloves", "garlic cloves", "garlic", Undefined, NoStr, "none",
                  Undefined),
     ParsedRecord("Garlic", NoStr, "", Undefined, NoStr, NoStr, Undefined),
     ParsedRecord("Basil", NoStr, "", Undefined, NoStr, NoStr, Undefined),
     ParsedRecord("garlic", "garlic", "garlic", Null, "cloves", "unit", Null),
     ParsedRecord("0 eggs", "eggs", "egg", Int2Num(0), NoStr, "unit", Int2Num(0)),
     ParsedRecord("salt to taste", "salt to taste", "salt and pepper", Undefined,
                  NoStr, "none", Undefined),
     ParsedRecord("1 tsp salt and pepper", "salt and pepper", "salt and pepper",
                  Int2Num(1), "tsp", "tsp", Int2Num(1)),
     ParsedRecord("fresh ginger, grated", NoStr, "ginger", Int2Num(1), "tablespoon",
                  "tbsp", Int2Num(1))}

\* aggregateIngredients on its own, on any sequence of records
InitAgg ==
    /\ pc = "parsed"
    /\ parsed \in SeqsUpTo(RecordPool, MaxRecords)
    /\ ParserIdle
    /\ threw = FALSE
    /\ aggregated = <<>>
    /\ CategorizerIdle
    /\ plan = [present |-> FALSE, meals |-> <<>>]
    /\ response = [status |-> 0]
    /\ call = [fn |-> "none"]
    /\ result = [fn |-> "none"]
    /\ ReviewIdle
    /\ PaprikaIdle

NextAgg == Aggregate

SpecAgg == InitAgg /\ [][NextAgg]_vars

\* the categorizer on its own: one call of categorizeIngredient or of
\* categorizeIngredients
InitCat ==
    /\ pc = "catStart"
    /\ ParserIdle
    /\ threw = FALSE
    /\ parsed = <<>>
    /\ aggregated = <<>>
    /\ catMode \in {"single", "batch"}
    /\ catInput \in IF catMode = "single" THEN {<<ing>> : ing \in SinglePool}
                    ELSE SeqsUpTo(BatchPool, MaxNames)
    /\ catUseAI \in BOOLEAN
    /\ catAnswer = NoAnswer
    /\ catOut = <<>>
    /\ clsCalls = 0
    /\ plan = [present |-> FALSE, meals |-> <<>>]
    /\ response = [status |-> 0]
    /\ call = [fn |-> "none"]
    /\ result = [fn |-> "none"]
    /\ ReviewIdle
    /\ PaprikaIdle

NextCat ==
    \/ CategorizeIngredientStart
    \/ CategorizeIngredientEnd
    \/ CategorizeIngredientsStart
    \/ CategorizeIngredientsEnd

SpecCat == InitCat /\ [][NextCat]_vars

\* one request to POST /api/grocery-list, from the request body to the
\* response
InitRoute ==
    /\ pc = "request"
    /\ plan \in PlanPool
    /\ response = [status |-> 0]
    /\ call = [fn |-> "none"]
    /\ result = [fn |-> "none"]
    /\ ReviewIdle
    /\ PaprikaIdle
    /\ ParserIdle
    /\ threw = FALSE
    /\ parsed = <<>>
    /\ aggregated = <<>>
    /\ CategorizerIdle

NextRoute ==
    \/ RouteCollect
    \/ ParseStart
    \/ AIRespond
    \/ Aggregate
    \/ RouteCategorize
    \/ CategorizeIngredientsStart
    \/ CategorizeIngredientsEnd
    \/ RouteRespond

SpecRoute == InitRoute /\ [][NextRoute]_vars

\* the review page after its effect loaded the stored plan, the stored
\* approvals (used only when all of them are meals of the plan) and the plan
\* parameters
InitReview ==
    /\ pc = "review"
    /\ reviewPlan \in ReviewPlanPool
    /\ storedPlan = reviewPlan
    /\ approvedMeals \in SUBSET KeysOf(reviewPlan)
    /\ storedApproved = approvedMeals
    /\ approvedAs = [k \in approvedMeals |-> RecipeOf(reviewPlan, k)]
    /\ replacingMeal = NoStr
    /\ showReplaceInput = NoStr
    /\ isRegenerating = FALSE
    /\ planParams \in BOOLEAN
    /\ requests = <<>>
    /\ finalizedPlan = [written |-> FALSE]
    /\ ParserIdle
    /\ threw = FALSE
    /\ parsed = <<>>
    /\ aggregated = <<>>
    /\ CategorizerIdle
    /\ plan = [present |-> FALSE, meals |-> <<>>]
    /\ response = [status |-> 0]
    /\ call = [fn |-> "none"]
    /\ result = [fn |-> "none"]
    /\ PaprikaIdle

NextReview ==
    \/ \E mealKey \in MealKeys : handleApprove(mealKey)
    \/ \E mealKey \in MealKeys : handleReplaceClick(mealKey)
    \/ handleReplaceCancel
    \/ \E mealKey \in MealKeys : handleReplace(mealKey)
    \/ \E r \in 1..Len(requests), ok \in BOOLEAN, newRecipe \in ReplacementPool :
          ReplaceResponse(r, ok, newRecipe)
    \/ handleRegenerateAll
    \/ \E r \in 1..Len(requests), ok \in BOOLEAN,
          newRecipes \in [1..Len(reviewPlan) -> RegeneratedPool] :
          RegenerateResponse(r, ok, newRecipes)
    \/ handleFinalize

SpecReview == InitReview /\ [][NextReview]_vars

\* a PaprikaClient after its construction
InitPaprika ==
    /\ pc = "paprika"
    /\ PaprikaIdle
    /\ ReviewIdle
    /\ ParserIdle
    /\ threw = FALSE
    /\ parsed = <<>>
    /\ aggregated = <<>>
    /\ CategorizerIdle
    /\ plan = [present |-> FALSE, meals |-> <<>>]
    /\ response = [status |-> 0]
    /\ call = [fn |-> "none"]
    /\ result = [fn |-> "none"]

NextPaprika ==
    \/ login
    \/ \E resp \in LoginResponses : LoginResponse(resp)
    \/ \E ok \in BOOLEAN : getRecipes(ok)
    \/ \E ok \in BOOLEAN : getRecipe(ok)
    \/ \E ok \in BOOLEAN : getCategories(ok)

SpecPaprika == InitPaprika /\ [][NextPaprika]_vars

\* direct calls of the exported pure functions
\* planner.ts, lines 87-236: generatePlan(recipes, days). A recipe is its uid
\* and its _isGenerated mark, a day its weekday and needsDinner. The catch
\* block (generatePlanSimple) is entered by no statement of the try block for
\* recipes of the declared type.
generatePlan(recipes, days) ==
    LET selectedDays == SelectSeq(days, LAMBDA d : d.needsDinner)
        generatedRecipesList == SelectSeq(recipes, LAMBDA r : r.isGenerated)
        Meal(day, recipe) == [day |-> day.day, recipe |-> recipe.uid]
        Shifted == IF Len(generatedRecipesList) < Len(selectedDays)
                   THEN Len(generatedRecipesList) ELSE Len(selectedDays)
    IN  IF Len(selectedDays) = 0 THEN [threw |-> FALSE, meals |-> <<>>]
        ELSE IF Len(recipes) = 0 THEN [threw |-> TRUE, meals |-> <<>>]
        ELSE IF Len(recipes) = 1
        THEN [threw |-> FALSE,
              meals |-> [i \in 1..Len(selectedDays) |-> Meal(selectedDays[i], recipes[1])]]
        ELSE [threw |-> FALSE,
              meals |-> [i \in 1..Shifted |->
                            Meal(selectedDays[i], generatedRecipesList[i])]]

\* recipes: up to MaxPlanRecipes recipes with different uids
PlanRecipeLists ==
    {r \in UNION {[1..k -> [uid : 1..MaxPlanRecipes, isGenerated : BOOLEAN]] :
                      k \in 0..MaxPlanRecipes} :
        \A i, j \in 1..Len(r) : i # j => r[i].uid # r[j].uid}

\* days: the first MaxDays days of the week, each with its needsDinner
DayRequirementLists ==
    {[i \in 1..MaxDays |-> [day |-> i, needsDinner |-> i \in need]] :
        need \in SUBSET (1..MaxDays)}

CallPool ==
    {[fn |-> "formatQuantity", totalQuantity |-> t, baseUnit |-> u, name |-> n] :
        t \in {Undefined} \cup {Num(h, 2) : h \in 0..(2 * MaxTotal)},
        u \in {"tsp", "tbsp", "cup", "unit", "none"},
        n \in {"Flour", "Olive Oil"}}
    \cup
    {[fn |-> "normalizeName", name |-> n] :
        n \in {"large fresh basil", "Fresh Ginger, grated", "small organic eggs",
               "Optional: fresh cilantro, chopped", "juice of 1 lime", "garlic cloves, minced",
               "scallions", "Salt and pepper to taste", "salt and pepper", "salt & pepper",
               "pepper and salt", "pepper & salt", "salt to taste", "pepper to taste",
               "egg", "eggs", "carrot", "carrots", "lime", "limes", "zucchini",
               "zucchinis", "bell pepper", "bell peppers", "hummus", "watercress"}}
    \cup
    {[fn |-> "generatePlan", recipes |-> r, days |-> d] :
        r \in PlanRecipeLists, d \in DayRequirementLists}

InitFn ==
    /\ pc = "call"
    /\ call \in CallPool
    /\ result = [fn |-> "none"]
    /\ ReviewIdle
    /\ PaprikaIdle
    /\ ParserIdle
    /\ threw = FALSE
    /\ parsed = <<>>
    /\ aggregated = <<>>
    /\ CategorizerIdle
    /\ plan = [present |-> FALSE, meals |-> <<>>]
    /\ response = [status |-> 0]

\* formatQuantity(totalQuantity, baseUnit, name)
FormatQuantityCall ==
    /\ pc = "call"
    /\ call.fn = "formatQuantity"
    /\ result' = [fn |-> call.fn,
                  value |-> formatQuantity(call.totalQuantity, call.baseUnit, call.name)]
    /\ pc' = "returned"
    /\ UNCHANGED <<parseVars, threw, aggregated, catVars, plan, response, call,
                   reviewVars, paprikaVars>>

\* the Name Normalizer as enrichParsedIngredient runs it on a name:
\* extractBaseNameAndPrep(name), then normalizeCanonicalName(baseName)
NormalizeNameCall ==
    /\ pc = "call"
    /\ call.fn = "normalizeName"
    /\ result' = [fn |-> call.fn,
                  value |-> [baseName |-> extractBaseNameAndPrep(call.name).baseName,
                             canonicalName |->
                                 parserNormalizeCanonicalName(
                                     extractBaseNameAndPrep(call.name).baseName)]]
    /\ pc' = "returned"
    /\ UNCHANGED <<parseVars, threw, aggregated, catVars, plan, response, call,
                   reviewVars, paprikaVars>>

\* generatePlan(recipes, days)
GeneratePlanCall ==
    /\ pc = "call"
    /\ call.fn = "generatePlan"
    /\ result' = [fn |-> call.fn, value |-> generatePlan(call.recipes, call.days)]
    /\ pc' = "returned"
    /\ UNCHANGED <<parseVars, threw, aggregated, catVars, plan, response, call,
                   reviewVars, paprikaVars>>

NextFn ==
    \/ FormatQuantityCall
    \/ NormalizeNameCall
    \/ GeneratePlanCall

SpecFn == InitFn /\ [][NextFn]_vars

-----------------------------------------------------------------------------
(* Properties.                                                             *)

ParseReturned == pc \in {"parsed", "aggregated"}

\* C1: parseIngredients returns exactly one record per input line and never
\* throws, whatever the lines are and whether or not the interpretation
\* service is enabled, reachable or well-formed in its answer.
C1_OneRecordPerLine ==
    ParseReturned => (~threw /\ Len(parsed) = Len(lines))

\* the grouping key as the specification words it: canonicalName and
\* baseUnit, an absent baseUnit counting as "none"
C2_LiteralKey(r) ==
    <<r.canonicalName, IF Falsy(r.baseUnit) THEN "none" ELSE r.baseUnit>>

\* the grouping key with the stand-in for an empty canonicalName: the
\* trimmed, lower-cased baseName, or name when there is no baseName
C2_Key(r) ==
    <<IF ~Falsy(r.canonicalName) THEN r.canonicalName
      ELSE Trim(ToLowerCase(IF ~Falsy(r.baseName) THEN r.baseName ELSE r.name)),
      IF Falsy(r.baseUnit) THEN "none" ELSE r.baseUnit>>

C2_KeyOf(r, literal) == IF literal THEN C2_LiteralKey(r) ELSE C2_Key(r)

\* the entries partition the input by key (the literal one or the one with
\* the stand-in): every entry holds, in input order, exactly the records of
\* one key, and no two entries have the same key
C2_Partition(literal) ==
    /\ \A g \in 1..Len(aggregated) :
          /\ aggregated[g].lines # <<>>
          /\ LET SameKey(r) == C2_KeyOf(r, literal)
                                   = C2_KeyOf(aggregated[g].lines[1], literal)
             IN  aggregated[g].lines = SelectSeq(parsed, SameKey)
    /\ \A g, h \in 1..Len(aggregated) :
          g # h => C2_KeyOf(aggregated[g].lines[1], literal)
                       # C2_KeyOf(aggregated[h].lines[1], literal)
    /\ \A i \in 1..Len(parsed) :
          \E g \in 1..Len(aggregated) :
              C2_KeyOf(parsed[i], literal) = C2_KeyOf(aggregated[g].lines[1], literal)

\* C2 (as stated): every input record lands in exactly one aggregated entry,
\* each entry's lines being the input records of one key
\* canonicalName::baseUnit in input order, so that records with the same
\* canonical name and different base units are never merged.
C2_PartitionByLiteralKey ==
    pc = "aggregated" => C2_Partition(TRUE)

\* C2 (amended): every input record lands in exactly one aggregated entry,
\* each entry's lines being the input records of one key in input order,
\* where the key is canonicalName::baseUnit and a record with an empty
\* canonicalName is keyed by its trimmed, lower-cased baseName (or name);
\* records with the same canonical name and different base units are never
\* merged.
C2_PartitionByKey ==
    pc = "aggregated" =>
        /\ C2_Partition(FALSE)
        /\ \A g \in 1..Len(aggregated) :
              \A i, j \in 1..Len(aggregated[g].lines) :
                  C2_Key(aggregated[g].lines[i])[2] = C2_Key(aggregated[g].lines[j])[2]

\* two entries for one canonical name with different base units, and an
\* entry that merged several records
C2_Witness ==
    /\ pc = "aggregated"
    /\ \E g, h \in 1..Len(aggregated) :
          /\ aggregated[g].canonicalName = aggregated[h].canonicalName
          /\ aggregated[g].baseUnit = "unit"
          /\ aggregated[h].baseUnit = "tbsp"
          /\ Len(aggregated[g].lines) > 1

C3_Defined(r) == r.quantityInBaseUnits.k = "num"

RECURSIVE C3_Sum(_)
C3_Sum(rs) ==
    IF rs = <<>> THEN Int2Num(0)
    ELSE NumAdd(Head(rs).quantityInBaseUnits, C3_Sum(Tail(rs)))

\* C3: for every group other than salt and pepper, totalQuantity is the sum of
\* quantityInBaseUnits over the lines that have a defined quantity, and it is
\* undefined exactly when no line of the group has one.
C3_TotalIsSumOfDefined ==
    pc = "aggregated" =>
        \A g \in 1..Len(aggregated) :
            aggregated[g].canonicalName # "salt and pepper" =>
                LET defined == SelectSeq(aggregated[g].lines, C3_Defined)
                IN  /\ (aggregated[g].totalQuantity = Undefined) <=> (defined = <<>>)
                    /\ defined # <<>> => aggregated[g].totalQuantity = C3_Sum(defined)

\* a group mixing two lines that have a quantity with one that has none
C3_Witness ==
    /\ pc = "aggregated"
    /\ \E g \in 1..Len(aggregated) :
          /\ aggregated[g].canonicalName = "garlic"
          /\ \E i, j, k \in 1..Len(aggregated[g].lines) :
                /\ i # j
                /\ C3_Defined(aggregated[g].lines[i])
                /\ C3_Defined(aggregated[g].lines[j])
                /\ ~C3_Defined(aggregated[g].lines[k])
          /\ aggregated[g].totalQuantity = Int2Num(6)

\* C4: when some input record has canonical name "salt and pepper", the
\* output holds exactly one entry for it, named "Salt and black pepper", with
\* totalQuantity and unit undefined and section Spices.
C4_SaltAndPepperOnce ==
    (pc = "aggregated"
        /\ \E i \in 1..Len(parsed) : parsed[i].canonicalName = "salt and pepper")
    => /\ Cardinality({g \in 1..Len(aggregated) :
                          aggregated[g].canonicalName = "salt and pepper"}) = 1
       /\ \A g \in 1..Len(aggregated) :
             aggregated[g].canonicalName = "salt and pepper" =>
                 /\ aggregated[g].name = "Salt and black pepper"
                 /\ aggregated[g].totalQuantity = Undefined
                 /\ aggregated[g].unit = NoStr
                 /\ aggregated[g].section = "Spices"

\* the override rules in their fixed order: keyword, the word that cancels
\* the rule, whether the canonical name is searched too, and the section
C7_Rule(kw, unless, both, section) ==
    [kw |-> kw, unless |-> unless, both |-> both, section |-> section]
C7_Rules ==
    <<C7_Rule("bell pepper", "", TRUE, "Produce"),
      C7_Rule("salmon", "", TRUE, "Meat/Fish"),
      C7_Rule("shrimp", "", TRUE, "Meat/Fish"),
      C7_Rule("chicken", "", TRUE, "Meat/Fish"),
      C7_Rule("beef", "", TRUE, "Meat/Fish"),
      C7_Rule("pork", "", TRUE, "Meat/Fish"),
      C7_Rule("turkey", "broth", TRUE, "Meat/Fish"),
      C7_Rule("fish", "sauce", TRUE, "Meat/Fish"),
      C7_Rule("zucchini", "", TRUE, "Produce"),
      C7_Rule("onion", "powder", TRUE, "Produce"),
      C7_Rule("garlic", "powder", TRUE, "Produce"),
      C7_Rule("lemon", "", TRUE, "Produce"),
      C7_Rule("lime", "", TRUE, "Produce"),
      C7_Rule("cilantro", "", TRUE, "Produce"),
      C7_Rule("parsley", "", TRUE, "Produce"),
      C7_Rule("basil", "", TRUE, "Produce"),
      C7_Rule("broccoli", "", TRUE, "Produce"),
      C7_Rule("spinach", "", TRUE, "Produce"),
      C7_Rule("carrot", "", TRUE, "Produce"),
      C7_Rule("tomato", "paste", TRUE, "Produce"),
      C7_Rule("lettuce", "", TRUE, "Produce"),
      C7_Rule("cucumber", "", TRUE, "Produce"),
      C7_Rule("avocado", "", TRUE, "Produce"),
      C7_Rule("cauliflower", "", TRUE, "Produce"),
      C7_Rule("snap pea", "", TRUE, "Produce"),
      C7_Rule("green onion", "", TRUE, "Produce"),
      C7_Rule("parmesan", "", FALSE, "Dairy"),
      C7_Rule("feta", "", FALSE, "Dairy"),
      C7_Rule("mozzarella", "", FALSE, "Dairy"),
      C7_Rule("cheese", "sauce", FALSE, "Dairy"),
      C7_Rule("olive oil", "", FALSE, "Pantry"),
      C7_Rule("sesame oil", "", FALSE, "Pantry"),
      C7_Rule("coconut oil", "", FALSE, "Pantry"),
      C7_Rule("vinegar", "", FALSE, "Pantry"),
      C7_Rule("broth", "", FALSE, "Pantry"),
      C7_Rule("stock", "", FALSE, "Pantry"),
      C7_Rule("coconut milk", "", FALSE, "Pantry"),
      C7_Rule("fish sauce", "", FALSE, "Pantry"),
      C7_Rule("soy sauce", "", FALSE, "Pantry"),
      C7_Rule("cumin", "", FALSE, "Spices"),
      C7_Rule("paprika", "", FALSE, "Spices"),
      C7_Rule("turmeric", "", FALSE, "Spices"),
      C7_Rule("cinnamon", "", FALSE, "Spices"),
      C7_Rule("chili", "", FALSE, "Spices"),
      C7_Rule("coriander", "", FALSE, "Spices"),
      C7_Rule("garlic powder", "", FALSE, "Spices"),
      C7_Rule("onion powder", "", FALSE, "Spices")>>

C7_RuleMatches(rule, text, canonicalText) ==
    /\ Includes(text, rule.kw) \/ (rule.both /\ Includes(canonicalText, rule.kw))
    /\ \/ rule.unless = ""
       \/ /\ ~Includes(text, rule.unless)
          /\ ~(rule.both /\ Includes(canonicalText, rule.unless))

\* the section of the first rule that matches; NoStr when none does
C7_FirstOverride(text, canonicalText) ==
    LET hit == {r \in 1..Len(C7_Rules) : C7_RuleMatches(C7_Rules[r], text, canonicalText)}
    IN  IF hit = {} THEN NoStr ELSE C7_Rules[SetMin(hit)].section

ClassifierFailed == 
    catAnswer.kind = "throw" \/ (catAnswer.kind = "text" /\ catAnswer.form = "garbage")
ClassifierAnswered == catAnswer.kind = "text" /\ catAnswer.form # "garbage"

\* C5: categorizeIngredients gives each name that matches an override rule
\* that rule's section, and "Other" to the rest, also when the classifier is
\* disabled, fails or answers with text that cannot be parsed.
C5_OverridesWithoutClassifier ==
    (pc = "catDone" /\ catMode = "batch" /\ (~catUseAI \/ ClassifierFailed)) =>
        \A n \in DOMAIN catOut :
            catOut[n] = IF C7_FirstOverride(ToLowerCase(n), "") # NoStr
                        THEN C7_FirstOverride(ToLowerCase(n), "")
                        ELSE "Other"

\* C6: every section categorizeIngredient and categorizeIngredients return is
\* one of Produce, Meat/Fish, Dairy, Pantry, Spices, Dry Goods, Other.
C6_SectionsAreCategories ==
    pc = "catDone" =>
        \A n \in DOMAIN catOut :
            catOut[n] \in {"Produce", "Meat/Fish", "Dairy", "Pantry", "Spices",
                           "Dry Goods", "Other"}

\* the section the classifier named for the ingredient called n, "Other"
\* when it named none
C7_ClassifierSection(n) ==
    SectionOrOther(catAnswer.categories,
                   normalizeForAICategorization(
                       IngredientName(FindIngredient(catInput, n))))

C7_CanonicalText(n) ==
    LET c == CanonicalOrBase(FindIngredient(catInput, n))
    IN  IF Falsy(c) THEN "" ELSE ToLowerCase(c)

C8_UnitBase(u) ==
    IF u \in {"cup", "cups", "tbsp", "tablespoon", "tablespoons"} THEN "tbsp"
    ELSE IF u \in {"tsp", "teaspoon", "teaspoons"} THEN "tsp"
    ELSE "unit"
C8_UnitFactor(u) == IF u \in {"cup", "cups"} THEN Int2Num(16) ELSE Int2Num(1)
C8_RecognizedUnits ==
    {"tsp", "teaspoon", "teaspoons", "tbsp", "tablespoon", "tablespoons", "cup",
     "cups", "clove", "cloves", "lb", "lbs", "pound", "pounds", "oz", "ounce",
     "ounces", "can", "cans", "head", "heads", "bunch", "bunches", "fillet",
     "fillets", "breast", "breasts"}

\* C8: a line with a quantity q (0 included) and a recognized unit is parsed
\* by the patterns alone into a record whose base unit is tbsp for cups and
\* tablespoons, tsp for teaspoons, unit for count units, and whose
\* quantityInBaseUnits is q times 16 for cups and q otherwise.
C8_QuantityAndUnitConverted ==
    pc # "start" =>
        /\ \A i \in 1..Len(simpleResults) :
              LET r == simpleResults[i]
              IN  (r.quantity.k = "num" /\ r.unit \in C8_RecognizedUnits) =>
                      /\ r.baseUnit = C8_UnitBase(r.unit)
                      /\ r.quantityInBaseUnits = NumMul(r.quantity, C8_UnitFactor(r.unit))
        /\ complexLines = <<>> => aiCalls = 0

\* C9: a record whose base unit is "none" has no quantityInBaseUnits,
\* whatever unit text the interpretation service supplied.
C9_NoneHasNoQuantity ==
    ParseReturned =>
        \A i \in 1..Len(parsed) :
            parsed[i].baseUnit = "none" => parsed[i].quantityInBaseUnits = Undefined

C10_NegativeOrNaN(q) == q = NaN \/ (q.k = "num" /\ q.n < 0)

\* C10: no parsed record carries a negative or NaN quantity or
\* quantityInBaseUnits, and no aggregated totalQuantity is negative or NaN.
C10_NoNegativeOrNaN ==
    /\ ParseReturned =>
          \A i \in 1..Len(parsed) :
              /\ ~C10_NegativeOrNaN(parsed[i].quantity)
              /\ ~C10_NegativeOrNaN(parsed[i].quantityInBaseUnits)
    /\ pc = "aggregated" =>
          \A g \in 1..Len(aggregated) : ~C10_NegativeOrNaN(aggregated[g].totalQuantity)

\* an aggregated entry as claim C11 compares entries: without `lines`
C11_Entry(e) ==
    [name |-> e.name, canonicalName |-> e.canonicalName, baseName |-> e.baseName,
     unit |-> e.unit, baseUnit |-> e.baseUnit, totalQuantity |-> e.totalQuantity,
     section |-> e.section]

C11_Entries(entries) == {C11_Entry(entries[g]) : g \in 1..Len(entries)}

\* C11: aggregateIngredients gives the same set of entries (compared by name,
\* canonicalName, baseName, unit, baseUnit, totalQuantity and section) for an
\* input sequence and for every permutation of it.
C11_OrderInsensitive ==
    pc = "aggregated" =>
        \A p \in Permutations(1..Len(parsed)) :
            C11_Entries(aggregateIngredients([i \in 1..Len(parsed) |-> parsed[p[i]]]))
                = C11_Entries(aggregated)

\* the interpretation service answered the batched request with an array of
\* one record per requested line, wrapped in a markdown code fence
C12_FencedRecords ==
    /\ aiAnswer.kind = "text"
    /\ aiAnswer.form = "fenced"
    /\ aiAnswer.isArray
    /\ Len(aiAnswer.items) = Len(complexLines)
    /\ \A k \in 1..Len(aiAnswer.items) :
          ~aiAnswer.items[k].isNull /\ aiAnswer.items[k].name # NoStr

\* C12: when the interpretation service answers with a well-formed array of
\* the requested records inside a markdown code fence, parseIngredients
\* returns, for every unresolved line, the record the service gave for it
\* (its name, quantity and unit) rather than the fallback minimal record.
C12_FencedArrayRecovered ==
    (ParseReturned /\ C12_FencedRecords) =>
        \A i \in 1..Len(lines) :
            ~IsSimpleLine(lines[i]) =>
                /\ i <= Len(parsed)
                /\ parsed[i].name = aiAnswer.items[ComplexCount(i)].name
                /\ parsed[i].quantity = aiAnswer.items[ComplexCount(i)].quantity
                /\ parsed[i].unit = aiAnswer.items[ComplexCount(i)].unit


\* C13: one grocery-list generation calls the interpretation service at most
\* once and the classification service at most once; the interpretation call
\* is made only when some line is unresolved by the pattern tiers, it carries
\* exactly the unresolved lines, and a failed call is not followed by another
C13_SingleBatchedCalls ==
    /\ aiCalls <= 1
    /\ clsCalls <= 1
    /\ aiCalls >= 1 =>
          /\ aiRequest # <<>>
          /\ aiRequest = SelectSeq(lines, IsUnresolvedLine)
    /\ (aiAnswer # NoAnswer /\ AITryThrows(aiAnswer)) => aiCalls = 1

C13_Witness ==
    /\ pc = "responded"
    /\ Len(lines) = 3
    /\ Len(aiRequest) < Len(lines)
    /\ aiCalls = 1
    /\ AITryThrows(aiAnswer)
    /\ clsCalls = 1
    /\ response.status = 200


C15_Reference(total, baseUnit) ==
    LET Floor(i) == Int2Num(total.n \div (total.d * i))
        Cups(q) == IF q = Int2Num(1) THEN "cup" ELSE "cups"
    IN  IF baseUnit = "none" \/ total = Undefined
        THEN [displayQuantity |-> Undefined, displayUnit |-> NoStr]
        ELSE CASE baseUnit = "tbsp" /\ total.n >= 16 * total.d ->
                      [displayQuantity |-> Floor(16), displayUnit |-> Cups(Floor(16))]
               [] baseUnit = "tbsp" /\ total.n < 16 * total.d ->
                      [displayQuantity |-> total, displayUnit |-> "tbsp"]
               [] baseUnit = "tsp" /\ total.n >= 3 * total.d /\ total.n % (3 * total.d) = 0 ->
                      [displayQuantity |-> Num(total.n, 3 * total.d), displayUnit |-> "tbsp"]
               [] baseUnit = "tsp" /\ ~(total.n >= 3 * total.d /\ total.n % (3 * total.d) = 0) ->
                      [displayQuantity |-> total, displayUnit |-> "tsp"]
               [] baseUnit = "cup" ->
                      [displayQuantity |-> total, displayUnit |-> Cups(total)]
               [] baseUnit = "unit" ->
                      [displayQuantity |-> total, displayUnit |-> ""]

\* C15: formatQuantity(total, baseUnit, name) returns what the reference
\* table gives for the total and the base unit, and returns the same for
\* every name
C15_MatchesReferenceTable ==
    (pc = "returned" /\ call.fn = "formatQuantity") =>
        /\ result.value = C15_Reference(call.totalQuantity, call.baseUnit)
        /\ \A name \in {"", "Flour", "2 cups flour", "salt and pepper"} :
              formatQuantity(call.totalQuantity, call.baseUnit, name) = result.value

\* 17 1/2 tbsp is returned as 1 cup: the remainder is discarded
C15_Witness ==
    /\ pc = "returned"
    /\ call.fn = "formatQuantity"
    /\ call.baseUnit = "tbsp"
    /\ call.totalQuantity = Num(35, 2)
    /\ result.value = [displayQuantity |-> Int2Num(1), displayUnit |-> "cup"]


\* C16: the Name Normalizer is idempotent: the canonical name obtained from a
\* raw name, normalized again (prep extraction, descriptor stripping, lower
\* case, plural and synonym lookup, salt/pepper rule), is returned unchanged
C16_NormalizerIdempotent ==
    (pc = "returned" /\ call.fn = "normalizeName") =>
        parserNormalizeCanonicalName(
            extractBaseNameAndPrep(result.value.canonicalName).baseName)
          = result.value.canonicalName

\* C17: every salt/pepper variant -- a name beginning "salt and pepper",
\* "salt & pepper", "pepper and salt" or "pepper & salt", and "salt to taste"
\* and "pepper to taste" -- gets the canonical name "salt and pepper"
C17_SaltPepperVariants ==
    (/\ pc = "returned"
     /\ call.fn = "normalizeName"
     /\ \/ \E prefix \in {"salt and pepper", "salt & pepper", "pepper and salt",
                          "pepper & salt"} :
              StartsWith(ToLowerCase(call.name), prefix)
        \/ ToLowerCase(call.name) \in {"salt to taste", "pepper to taste"})
    => result.value.canonicalName = "salt and pepper"

\* C18: a base name w that does not end in "s" and its plural w + "s" get the
\* same canonical name
C18_SingularPluralReconciled ==
    (/\ pc = "returned"
     /\ call.fn = "normalizeName"
     /\ result.value.baseName # ""
     /\ ~EndsWith(result.value.baseName, "s"))
    => parserNormalizeCanonicalName(result.value.baseName \o "s")
         = result.value.canonicalName


\* C19: with the classifier disabled, categorizeIngredient puts the dry-goods
\* ingredients chickpeas, quinoa and red lentils (given as display, canonical
\* and base name) in Dry Goods
C19_DryGoodsWithoutClassifier ==
    (/\ pc = "catDone"
     /\ catMode = "single"
     /\ ~catUseAI
     /\ catInput[1].canonicalName \in {"chickpeas", "quinoa", "red lentils"})
    => catOut[catInput[1].name] = "Dry Goods"


\* C20: the name of an aggregated entry is the display form of the base name
\* of its first line, or of the canonical name when that line carries no
\* base name; it is never the display form of a full line name with its
\* quantity, unit or preparation clause
C20_EntryNameIsIngredient ==
    pc = "aggregated" =>
        \A g \in 1..Len(aggregated) :
            aggregated[g].name =
                formatDisplayName(
                    aggregated[g].canonicalName,
                    IF Falsy(aggregated[g].lines[1].baseName)
                    THEN aggregated[g].canonicalName
                    ELSE aggregated[g].lines[1].baseName)


\* C21: the finalized plan is written, and the grocery-list page opened, only
\* in a state where the plan has meals and each of them is approved, and the
\* finalized plan then holds every meal of the current plan
C21_FinalizeOnlyWhenAllApproved ==
    [][(finalizedPlan' # finalizedPlan \/ (pc = "review" /\ pc' = "groceryList")) =>
          /\ Len(reviewPlan) > 0
          /\ \A i \in 1..Len(reviewPlan) : reviewPlan[i].key \in approvedMeals
          /\ finalizedPlan'.written
          /\ finalizedPlan'.meals = reviewPlan
          /\ pc' = "groceryList"]_vars

\* a plan of two meals, one of them replaced before its approval, is finalized
C21_Witness ==
    /\ pc = "groceryList"
    /\ finalizedPlan.written
    /\ Len(finalizedPlan.meals) = 2
    /\ \E i \in 1..2 : finalizedPlan.meals[i].recipe = "replacement"


\* C22: when a regenerate-all request ends with a new plan, every meal that
\* was approved before is still approved and still has its recipe
C22_RegenerateKeepsApproved ==
    [][(/\ isRegenerating
        /\ ~isRegenerating'
        /\ \A i \in 1..Len(reviewPlan') : reviewPlan'[i].recipe \in RegeneratedPool) =>
          \A k \in approvedMeals :
              /\ k \in approvedMeals'
              /\ RecipeOf(reviewPlan', k) = RecipeOf(reviewPlan, k)]_vars


\* C23: a step in which a replace request for a day completes leaves the
\* recipe of every other day as it was, in the page state and in the stored plan
C23_ReplaceChangesOnlyItsDay ==
    [][\A r \in 1..Len(requests) :
          LET rest == [i \in 1..(Len(requests) - 1) |->
                          IF i < r THEN requests[i] ELSE requests[i + 1]]
          IN  (requests[r].kind = "replace" /\ requests' = rest) =>
                  \A k \in KeysOf(reviewPlan) \ {requests[r].mealKey} :
                      /\ RecipeOf(reviewPlan', k) = RecipeOf(reviewPlan, k)
                      /\ RecipeOf(storedPlan', k) = RecipeOf(storedPlan, k)]_vars


\* C28: every meal that is marked approved has the recipe it had when the
\* user approved it
C28_ApprovedKeepsRecipe ==
    \A k \in approvedMeals :
        k \in KeysOf(reviewPlan) => RecipeOf(reviewPlan, k) = approvedAs[k]


\* C24: wherever postProcessSection was applied to an ingredient that has a
\* canonical name, the section returned is that of the first override rule
\* whose keyword occurs in the display name or in the canonical name
C24_OverridesMatchEitherName ==
    (pc = "catDone" /\ (catMode = "single" \/ ClassifierAnswered)) =>
        \A n \in DOMAIN catOut :
            LET ing == FindIngredient(catInput, n)
                text == ToLowerCase(n)
                canonicalText == ToLowerCase(ing.canonicalName)
                hit == {r \in 1..Len(C7_Rules) :
                           C7_RuleMatches([C7_Rules[r] EXCEPT !.both = TRUE],
                                          text, canonicalText)}
            IN  (~Falsy(ing.canonicalName) /\ hit # {}) =>
                    catOut[n] = C7_Rules[SetMin(hit)].section


\* C25: every record the pattern tiers produce with a unit carries a token
\* of the unit table as its unit
C25_PatternUnitInUnitTable ==
    pc # "start" =>
        \A i \in 1..Len(simpleResults) :
            ~Falsy(simpleResults[i].unit) =>
                simpleResults[i].unit \in DOMAIN UNIT_MAP \ {""}

\* C26: when parseIngredients returns one record per line, the raw text and
\* the original text of the record at position i are the i-th line, up to
\* surrounding whitespace
C26_RawTextIsInputLine ==
    (pc = "parsed" /\ Len(parsed) = Len(lines)) =>
        \A i \in 1..Len(lines) :
            /\ Trim(parsed[i].raw) = Trim(lines[i])
            /\ Trim(parsed[i].originalText) = Trim(lines[i])


\* C27: every entry handed to formatGroceryListForNotes has exactly one
\* bullet in the rendered text, below the heading of its own section and
\* above the next heading, and the headings follow the fixed order
C27_EveryEntryRenderedOnce ==
    (pc = "responded" /\ response.status = 200) =>
        LET text == response.groceryList
            HeadingAbove(i) ==
                LET above == {j \in 1..i : text[j].kind = "heading"}
                IN  IF above = {} THEN NoStr
                    ELSE text[CHOOSE j \in above : \A h \in above : h <= j].text
            Position(category) ==
                CHOOSE c \in 1..Len(CATEGORY_ORDER) : CATEGORY_ORDER[c] = category
        IN  /\ \A g \in 1..Len(response.entries) :
                  /\ Cardinality({i \in 1..Len(text) :
                                     text[i].kind = "bullet" /\ text[i].entry = g}) = 1
                  /\ \A i \in 1..Len(text) :
                        (text[i].kind = "bullet" /\ text[i].entry = g) =>
                            HeadingAbove(i) = response.entries[g].section
            /\ \A i, j \in 1..Len(text) :
                  (i < j /\ text[i].kind = "heading" /\ text[j].kind = "heading") =>
                      Position(text[i].text) < Position(text[j].text)


\* C29: called with at least one recipe, generatePlan returns one meal for
\* each day that needs dinner, in the order of the days, and with two or more
\* recipes no recipe is given to two days
C29_OneMealPerDinnerDay ==
    (pc = "returned" /\ result.fn = "generatePlan" /\ Len(call.recipes) >= 1) =>
        LET meals == result.value.meals
            dinnerDays == SelectSeq(call.days, LAMBDA d : d.needsDinner)
        IN  /\ ~result.value.threw
            /\ Len(meals) = Len(dinnerDays)
            /\ \A i \in 1..Len(meals) : meals[i].day = dinnerDays[i].day
            /\ Len(call.recipes) >= 2 =>
                   \A i, j \in 1..Len(meals) : i # j => meals[i].recipe # meals[j].recipe


\* C30: while no login() has succeeded the client holds no token, sends no
\* request to a sync endpoint, and every getRecipes, getRecipe and
\* getCategories call throws; a login() that throws leaves the token as it
\* was, and the token only changes to a non-empty string that the response of
\* a login that returned normally carries
C30_LoginRequired ==
    [][/\ ~loginSucceeded =>
             /\ token = NoStr
             /\ syncRequests' = syncRequests
             /\ lastCall' # lastCall => (lastCall'.threw /\ ~lastCall'.sent)
       /\ (lastLogin' # lastLogin /\ lastLogin'.threw) => token' = token
       /\ token' # token =>
             /\ loginsInFlight' = loginsInFlight - 1
             /\ ~lastLogin'.threw
             /\ token' \notin {NoStr, ""}
             /\ \E v \in {lastLogin'.response.resultToken, lastLogin'.response.topToken,
                          lastLogin'.response.dataToken} :
                   v.t = "string" /\ v.s = token']_vars

\* before any login succeeded, a login has failed and a getRecipe call threw
\* without a request
C30_Witness ==
    /\ ~loginSucceeded
    /\ lastLogin.ended
    /\ lastLogin.threw
    /\ lastCall.fn = "getRecipe"
    /\ lastCall.threw
    /\ syncRequests = 0
    /\ token = NoStr

====
